---- MODULE Spec2Model ----
(***************************************************************************)
(* A model of the AquaWatch backend: the fetch -> encode -> infer -> decide *)
(* pipeline (internal/anomaly.go), the USGS batch fetches, the CSV feature  *)
(* encoder, the preprocess lambda and the anomaly-check HTTP handler.       *)
(*                                                                         *)
(* Text (byte slices and Go strings) is a sequence of one-character         *)
(* strings.  A float64 is an integer count of units of 10^-FracDigits       *)
(* (72.3 is 72300 thousandths); further decimals are dropped by a parse.    *)
(***************************************************************************)
EXTENDS Integers, Sequences, FiniteSets, TLC

VARIABLES
    ppOutput,   \* parsePredictions: the model output handed to it
    ppResult,   \* parsePredictions: what it returned (NotCalled before the call)
    encRaw,     \* PreprocessDataCSV: the raw payload handed to it
    encResult,  \* PreprocessDataCSV: what it returned, with the weather answers
    pidIn,      \* ProcessInferAndDetect: station, parameter and environment
    pidOut,     \* ProcessInferAndDetect: what it returned and did, with the world
    achIn,      \* AnomalyCheckHandler: the request and the environment
    achOut,     \* AnomalyCheckHandler: the response written and what was done
    preIn,      \* preprocess lambda: its preprocessInput
    preOut,     \* preprocess lambda: what the handler returned and did
    s3Objects,  \* the blob store: a set of objects [bucket, key, data]
    infIn,      \* infer lambda: its inferInput and environment
    infOut,     \* infer lambda: what the handler returned and did
    trainModelTracker,  \* the train-model-tracker table: a set of records
    accWriter,  \* accumulate: per invocation, its position, rows and loaded content
    accHistory, \* accumulate: the loads and saves made so far, in order
    psIn,       \* PredictionStatusHandler: the site and status of the query
    psOut,      \* PredictionStatusHandler: the response written, the lookups made
    predictionTracker,  \* the prediction-tracker table: a set of items
    subIn,      \* SubscribeAlertsHandler: the request
    subOut,     \* SubscribeAlertsHandler: the response written, the SNS calls made
    snsSubscriptions,   \* the subscriptions of the alerts topic, as listed
    batchIn,  \* PreprocessDataCSVBatch: the raw payloads handed to it
    batchOut, \* PreprocessDataCSVBatch: what it returned, with the weather answers
    getIn,  \* a batch fetch, [endpoint, stationIDs, answers]
    getRun, \* the position of the batch fetch, [pc, i, results, err]
    lraIn,  \* a ListRecentAlerts call, [variant, sinceEpochMs, limit, table]
    lraOut, \* what the call returned and the requests it made
    sesEnv,  \* SESSION_SECRET
    sesNow,  \* the clock, in seconds
    sesMinted,  \* what MintSessionToken returned, with the phone and expiry it bound
    sesOut, \* the last ValidateSessionToken call
    authIn,  \* a request to the API and its environment, [flag, secret, now, req]
    authOut  \* what the middleware chain did with it

ppVars == <<ppOutput, ppResult>>
encVars == <<encRaw, encResult>>
pidVars == <<pidIn, pidOut>>
achVars == <<achIn, achOut>>
preVars == <<preIn, preOut>>
infVars == <<infIn, infOut, trainModelTracker>>
accVars == <<accWriter, accHistory>>
psVars == <<psIn, psOut, predictionTracker>>
subVars == <<subIn, subOut, snsSubscriptions>>
batchVars == <<batchIn, batchOut>>
getVars == <<getIn, getRun>>
lraVars == <<lraIn, lraOut>>
sesVars == <<sesEnv, sesNow, sesMinted, sesOut>>
authVars == <<authIn, authOut>>
vars == <<ppOutput, ppResult, encRaw, encResult, pidIn, pidOut, achIn, achOut,
          preIn, preOut, s3Objects, infIn, infOut, trainModelTracker,
          accWriter, accHistory, psIn, psOut, predictionTracker,
          subIn, subOut, snsSubscriptions,
          batchIn, batchOut,
          getIn, getRun,
          lraIn, lraOut,
          sesEnv, sesNow, sesMinted, sesOut,
          authIn, authOut>>

NotCalled == [called |-> FALSE]

\* a local variable: Body of the value once computed
With(value, Body(_)) == Body(value)

------------------------------------------------------------------------------
(* Bounds of the model. *)

\* longest enumerated model output, in characters
MaxLen == 4

\* most items (points, block breaks, series breaks) of an enumerated document
MaxItems == 4

\* most sites of an enumerated anomaly-check request
MaxSites == 2

\* the most subscriptions a topic holds initially
MaxSubs == 2

------------------------------------------------------------------------------
(* Characters and text. *)

NL == "\n"
CR == "\r"
TAB == "\t"
FF == "\f"
SP == " "
COMMA == ","

DigitChars == {"0", "1", "2", "3", "4", "5", "6", "7", "8", "9"}

DigitVal(c) ==
    CASE c = "0" -> 0 [] c = "1" -> 1 [] c = "2" -> 2 [] c = "3" -> 3
      [] c = "4" -> 4 [] c = "5" -> 5 [] c = "6" -> 6 [] c = "7" -> 7
      [] c = "8" -> 8 [] c = "9" -> 9

DigitChar(d) ==
    CASE d = 0 -> "0" [] d = 1 -> "1" [] d = 2 -> "2" [] d = 3 -> "3"
      [] d = 4 -> "4" [] d = 5 -> "5" [] d = 6 -> "6" [] d = 7 -> "7"
      [] d = 8 -> "8" [] d = 9 -> "9"

\* unicode.IsSpace, over the characters of the model
IsSpace(c) == c \in {SP, TAB, NL, CR, FF}

Abs(n) == IF n < 0 THEN -n ELSE n

RECURSIVE Pow10(_)
Pow10(n) == IF n = 0 THEN 1 ELSE 10 * Pow10(n - 1)

\* decimals kept of a float64: values are counted in units of 10^-FracDigits
FracDigits == 3
Unit == Pow10(FracDigits)

\* the float64 whole.thousandths, for whole >= 0
Dec(whole, thousandths) == whole * Unit + thousandths * (Unit \div 1000)

Zeros(n) == [i \in 1..n |-> "0"]

RECURSIVE TrimLeft(_)
TrimLeft(s) ==
    IF s # <<>> /\ IsSpace(Head(s)) THEN TrimLeft(Tail(s)) ELSE s

RECURSIVE TrimRight(_)
TrimRight(s) ==
    IF s # <<>> /\ IsSpace(s[Len(s)])
    THEN TrimRight(SubSeq(s, 1, Len(s) - 1))
    ELSE s

\* strings.TrimSpace
TrimSpace(s) == TrimRight(TrimLeft(s))

\* strings.TrimPrefix with a one-character prefix
TrimPrefix(s, c) == IF s # <<>> /\ Head(s) = c THEN Tail(s) ELSE s

\* strings.TrimSuffix with a one-character suffix
TrimSuffix(s, c) ==
    IF s # <<>> /\ s[Len(s)] = c THEN SubSeq(s, 1, Len(s) - 1) ELSE s

\* strings.ReplaceAll with one-character old and new
ReplaceAll(s, old, new) == [i \in 1..Len(s) |-> IF s[i] = old THEN new ELSE s[i]]

\* strings.Split on a one-character separator: n separators give n+1 parts
RECURSIVE Split(_, _)
Split(s, sep) ==
    IF \A i \in 1..Len(s) : s[i] # sep
    THEN <<s>>
    ELSE LET k == CHOOSE i \in 1..Len(s) :
                      s[i] = sep /\ \A j \in 1..(i - 1) : s[j] # sep
         IN  <<SubSeq(s, 1, k - 1)>> \o Split(SubSeq(s, k + 1, Len(s)), sep)

\* strings.Join with a one-character separator
RECURSIVE Join(_, _)
Join(parts, sep) ==
    IF parts = <<>> THEN <<>>
    ELSE IF Len(parts) = 1 THEN parts[1]
    ELSE parts[1] \o <<sep>> \o Join(Tail(parts), sep)

RECURSIVE DigitsToNat(_)
DigitsToNat(ds) ==
    IF ds = <<>> THEN 0
    ELSE 10 * DigitsToNat(SubSeq(ds, 1, Len(ds) - 1)) + DigitVal(ds[Len(ds)])

\* the first FracDigits digits after the decimal point, as units
FracToUnits(ds) ==
    LET padded == ds \o Zeros(FracDigits)
    IN  DigitsToNat(SubSeq(padded, 1, FracDigits))

\* strconv.ParseFloat(p, 64) over decimal text: an optional sign, digits with
\* at most one point, at least one digit; [ok, v] with v in units
ParseFloat(p) ==
    LET signed == p # <<>> /\ Head(p) \in {"-", "+"}
        body   == IF signed THEN Tail(p) ELSE p
        dots   == {i \in 1..Len(body) : body[i] = "."}
        wellFormed ==
            /\ \A i \in 1..Len(body) : body[i] \in DigitChars \cup {"."}
            /\ Cardinality(dots) <= 1
            /\ \E i \in 1..Len(body) : body[i] \in DigitChars
        dot    == IF dots = {} THEN Len(body) + 1 ELSE CHOOSE i \in dots : TRUE
        whole  == DigitsToNat(SubSeq(body, 1, dot - 1))
        frac   == FracToUnits(SubSeq(body, dot + 1, Len(body)))
        mag    == whole * Unit + frac
    IN  IF wellFormed
        THEN [ok |-> TRUE, v |-> IF signed /\ Head(p) = "-" THEN -mag ELSE mag]
        ELSE [ok |-> FALSE, v |-> 0]

------------------------------------------------------------------------------
(* internal/anomaly.go: parsePredictions *)

\* the separators parsePredictions replaces by commas, in the order of the code
seps == <<NL, CR, COMMA, TAB, SP>>

RECURSIVE ReplaceSeps(_, _)
ReplaceSeps(text, i) ==
    IF i > Len(seps) THEN text
    ELSE ReplaceSeps(ReplaceAll(text, seps[i], COMMA), i + 1)

\* a scan that keeps the first part that parses
RECURSIVE ScanPartsFirst(_, _)
ScanPartsFirst(parts, acc) ==
    IF parts = <<>> THEN acc
    ELSE LET p == TrimSpace(Head(parts))
             r == ParseFloat(p)
         IN  IF p = <<>> \/ ~r.ok \/ acc.found
             THEN ScanPartsFirst(Tail(parts), acc)
             ELSE ScanPartsFirst(Tail(parts), [found |-> TRUE, last |-> r.v])

\* the loop over the parts: the last part that parses wins
RECURSIVE ScanParts(_, _)
ScanParts(parts, acc) ==
    IF parts = <<>> THEN acc
    ELSE LET p == TrimSpace(Head(parts))
             r == ParseFloat(p)
         IN  IF p = <<>> \/ ~r.ok
             THEN ScanParts(Tail(parts), acc)
             ELSE ScanParts(Tail(parts), [found |-> TRUE, last |-> r.v])

\* a parse that reports no error when nothing numeric was found
parsePredictionsUnchecked(output) ==
    LET text     == TrimSpace(output)
        stripped == TrimSuffix(TrimPrefix(text, "["), "]")
        parts    == Split(ReplaceSeps(stripped, 1), COMMA)
        scan     == ScanParts(parts, [found |-> FALSE, last |-> 0])
    IN  [err |-> "", value |-> scan.last]

parsePredictions(output) ==
    LET text == TrimSpace(output)
    IN  IF text = <<>>
        THEN [err |-> "empty prediction output", value |-> 0]
        ELSE LET stripped == TrimSuffix(TrimPrefix(text, "["), "]")
                 parts    == Split(ReplaceSeps(stripped, 1), COMMA)
                 scan     == ScanParts(parts, [found |-> FALSE, last |-> 0])
             IN  IF ~scan.found
                 THEN [err |-> "no numeric predictions parsed", value |-> 0]
                 ELSE [err |-> "", value |-> scan.last]

------------------------------------------------------------------------------
(* Raw provider payloads.  A payload is nil (no bytes), bytes that are not  *)
(* JSON, or a USGS document: timeSeries is a sequence of series, a series   *)
(* has a location and a sequence of value blocks, a block is a sequence of  *)
(* points, a point has the texts of its value and its dateTime.             *)

NilPayload == [kind |-> "nil"]
GarbagePayload == [kind |-> "garbage"]
JSONPayload(series) == [kind |-> "json", timeSeries |-> series]

\* len(p) == 0
IsEmptyPayload(p) == p.kind = "nil"

\* json.Unmarshal(raw, &usgs): [ok, timeSeries]
Unmarshal(raw) ==
    IF raw.kind = "json"
    THEN [ok |-> TRUE, timeSeries |-> raw.timeSeries]
    ELSE [ok |-> FALSE, timeSeries |-> <<>>]

\* time.Parse(time.RFC3339, s) on the dateTime texts of the model: [ok, unix]
ParseRFC3339(s) ==
    CASE s = "2025-08-24T10:15:00.000-06:00" -> [ok |-> TRUE, unix |-> 1756052100]
      [] s = "2025-08-24T10:30:00-06:00" -> [ok |-> TRUE, unix |-> 1756053000]
      [] s = "2025-08-23T12:00:00Z" -> [ok |-> TRUE, unix |-> 1755950400]
      [] s = "2025-08-22T00:00:00.000" -> [ok |-> FALSE, unix |-> 0]
      [] s = "2025-08-24" -> [ok |-> FALSE, unix |-> 0]
      [] OTHER -> [ok |-> FALSE, unix |-> 0]

\* the longest prefix of s made of characters of set
RECURSIVE TakeWhile(_, _)
TakeWhile(s, set) ==
    IF s # <<>> /\ Head(s) \in set
    THEN <<Head(s)>> \o TakeWhile(Tail(s), set)
    ELSE <<>>

\* fmt.Sscanf(text, "%f", &v) with the error dropped: the float token is the
\* longest prefix sign? digits* (. digits*)? after leading blanks; v stays 0
\* when the token does not parse
ScanFloat(text) ==
    LET s0    == TakeWhile(text, {SP, TAB})
        s1    == SubSeq(text, Len(s0) + 1, Len(text))
        sign  == IF s1 # <<>> /\ Head(s1) \in {"+", "-"} THEN <<Head(s1)>> ELSE <<>>
        s2    == SubSeq(s1, Len(sign) + 1, Len(s1))
        whole == TakeWhile(s2, DigitChars)
        s3    == SubSeq(s2, Len(whole) + 1, Len(s2))
        point == IF s3 # <<>> /\ Head(s3) = "." THEN <<".">> ELSE <<>>
        s4    == SubSeq(s3, Len(point) + 1, Len(s3))
        frac  == IF point = <<>> THEN <<>> ELSE TakeWhile(s4, DigitChars)
        r     == ParseFloat(sign \o whole \o point \o frac)
    IN  IF r.ok THEN r.v ELSE 0

RECURSIVE NatToText(_)
NatToText(n) ==
    IF n < 10 THEN <<DigitChar(n)>>
    ELSE NatToText(n \div 10) \o <<DigitChar(n % 10)>>

\* fmt.Sprintf("%d", n)
FormatInt(n) == IF n < 0 THEN <<"-">> \o NatToText(-n) ELSE NatToText(n)

\* n as exactly w digits, zero-padded on the left
RECURSIVE PadDigits(_, _)
PadDigits(n, w) ==
    IF w = 0 THEN <<>> ELSE PadDigits(n \div 10, w - 1) \o <<DigitChar(n % 10)>>

\* fmt.Sprintf("%f", v): six decimals
FormatFloat(v) ==
    (IF v < 0 THEN <<"-">> ELSE <<>>)
        \o NatToText(Abs(v) \div Unit)
        \o <<".">>
        \o PadDigits(Abs(v) % Unit, FracDigits)
        \o Zeros(6 - FracDigits)

\* csv.Writer.Write of fields that need no quoting
CSVLine(record) == Join(record, COMMA) \o <<NL>>

------------------------------------------------------------------------------
(* PreprocessDataCSV and PreprocessDataCSVBatch.  wx is the weather         *)
(* collaborator: wx[i] is what FetchWeatherForecast answers for the i-th    *)
(* series, [err, temp].                                                     *)

\* an encoder that keeps a point whose timestamp does not parse
EncodePointKeepAll(point, lat, lng, temp) ==
    CSVLine(<<FormatFloat(ScanFloat(point.value)),
              FormatInt(ParseRFC3339(point.dateTime).unix),
              FormatFloat(lat),
              FormatFloat(lng),
              FormatInt(temp)>>)

EncodePoint(point, lat, lng, temp) ==
    LET t == ParseRFC3339(point.dateTime)
    IN  IF ~t.ok THEN <<>>
        ELSE CSVLine(<<FormatFloat(ScanFloat(point.value)),
                       FormatInt(t.unix),
                       FormatFloat(lat),
                       FormatFloat(lng),
                       FormatInt(temp)>>)

RECURSIVE EncodePoints(_, _, _, _)
EncodePoints(points, lat, lng, temp) ==
    IF points = <<>> THEN <<>>
    ELSE EncodePoint(Head(points), lat, lng, temp)
             \o EncodePoints(Tail(points), lat, lng, temp)

RECURSIVE EncodeBlocks(_, _, _, _)
EncodeBlocks(blocks, lat, lng, temp) ==
    IF blocks = <<>> THEN <<>>
    ELSE EncodePoints(Head(blocks), lat, lng, temp)
             \o EncodeBlocks(Tail(blocks), lat, lng, temp)

\* a variant in which a failed lookup also zeroes the series after it
RECURSIVE EncodeSeriesStickyFailure(_, _, _)
EncodeSeriesStickyFailure(series, wx, i) ==
    IF i > Len(series) THEN <<>>
    ELSE LET ts   == series[i]
             temp == IF \E k \in 1..i : wx[k].err THEN 0 ELSE wx[i].temp
         IN  EncodeBlocks(ts.values, ts.lat, ts.lng, temp)
                 \o EncodeSeriesStickyFailure(series, wx, i + 1)

RECURSIVE EncodeSeries(_, _, _)
EncodeSeries(series, wx, i) ==
    IF i > Len(series) THEN <<>>
    ELSE LET ts   == series[i]
             temp == IF wx[i].err THEN 0 ELSE wx[i].temp
         IN  EncodeBlocks(ts.values, ts.lat, ts.lng, temp)
                 \o EncodeSeries(series, wx, i + 1)

\* [err, csv, lookups]: lookups is the number of weather lookups made
PreprocessDataCSV(rawData, wx) ==
    LET usgs == Unmarshal(rawData)
    IN  IF ~usgs.ok
        THEN [err |-> "failed to parse USGS JSON", csv |-> <<>>, lookups |-> 0]
        ELSE [err |-> "",
              csv |-> EncodeSeries(usgs.timeSeries, wx, 1),
              lookups |-> Len(usgs.timeSeries)]

------------------------------------------------------------------------------
(* The USGS batch fetches.  answers[i] is what the provider does with the   *)
(* request for the i-th station: kind is "reqErr" (http.Get fails),        *)
(* "status" (a status other than 200), "readErr" (the body cannot be read)  *)
(* or "ok" (body is the payload).  A request is [endpoint, site, parameter].*)

\* a batch fetch that appends nothing for a blank station id
RECURSIVE FetchLoopSkipBlank(_, _, _, _, _, _, _)
FetchLoopSkipBlank(endpoint, stationIDs, parameter, answers, i, results, requests) ==
    IF i > Len(stationIDs)
    THEN [err |-> "", results |-> results, requests |-> requests]
    ELSE LET stationID == TrimSpace(stationIDs[i])
             sent == Append(requests, [endpoint |-> endpoint, site |-> stationID,
                                       parameter |-> parameter])
         IN  IF stationID = <<>>
             THEN FetchLoopSkipBlank(endpoint, stationIDs, parameter, answers, i + 1,
                                     results, requests)
             ELSE IF answers[i].kind # "ok"
             THEN [err |-> "API request failed", results |-> <<>>, requests |-> sent]
             ELSE FetchLoopSkipBlank(endpoint, stationIDs, parameter, answers, i + 1,
                                     Append(results, answers[i].body), sent)

\* a batch fetch that puts each payload in front of the earlier ones
RECURSIVE FetchLoopPrepend(_, _, _, _, _, _, _)
FetchLoopPrepend(endpoint, stationIDs, parameter, answers, i, results, requests) ==
    IF i > Len(stationIDs)
    THEN [err |-> "", results |-> results, requests |-> requests]
    ELSE LET stationID == TrimSpace(stationIDs[i])
             sent == Append(requests, [endpoint |-> endpoint, site |-> stationID,
                                       parameter |-> parameter])
         IN  IF stationID = <<>>
             THEN FetchLoopPrepend(endpoint, stationIDs, parameter, answers, i + 1,
                                   <<NilPayload>> \o results, requests)
             ELSE IF answers[i].kind # "ok"
             THEN [err |-> "API request failed", results |-> <<>>, requests |-> sent]
             ELSE FetchLoopPrepend(endpoint, stationIDs, parameter, answers, i + 1,
                                   <<answers[i].body>> \o results, sent)

\* the loop of a batch fetch, from station i on
RECURSIVE FetchLoop(_, _, _, _, _, _, _)
FetchLoop(endpoint, stationIDs, parameter, answers, i, results, requests) ==
    IF i > Len(stationIDs)
    THEN [err |-> "", results |-> results, requests |-> requests]
    ELSE LET stationID == TrimSpace(stationIDs[i])
             sent == Append(requests, [endpoint |-> endpoint, site |-> stationID,
                                       parameter |-> parameter])
         IN  IF stationID = <<>>
             THEN FetchLoop(endpoint, stationIDs, parameter, answers, i + 1,
                            Append(results, NilPayload), requests)
             ELSE IF answers[i].kind = "reqErr"
             THEN [err |-> "API request failed", results |-> <<>>, requests |-> sent]
             ELSE IF answers[i].kind = "status"
             THEN [err |-> "API non-OK status", results |-> <<>>, requests |-> sent]
             ELSE IF answers[i].kind = "readErr"
             THEN [err |-> "reading HTTP response failed", results |-> <<>>,
                   requests |-> sent]
             ELSE FetchLoop(endpoint, stationIDs, parameter, answers, i + 1,
                            Append(results, answers[i].body), sent)

\* instantaneous values, one payload per station, in the same order
GetWaterDataBatch(stationIDs, parameter, answers) ==
    FetchLoop("iv", stationIDs, parameter, answers, 1, <<>>, <<>>)

\* daily values of the last 30 days, one payload per station
GetWaterDailyDataLast30DaysBatch(stationIDs, parameter, answers) ==
    FetchLoop("dv", stationIDs, parameter, answers, 1, <<>>, <<>>)

\* the single-station wrapper of GetWaterDataBatch
GetWaterData(stationID, parameter, answers) ==
    LET batch == GetWaterDataBatch(<<stationID>>, parameter, answers)
    IN  IF batch.err # ""
        THEN [err |-> batch.err, raw |-> NilPayload, requests |-> batch.requests]
        ELSE IF Len(batch.results) = 0 \/ batch.results[1] = NilPayload
        THEN [err |-> "no data returned for station", raw |-> NilPayload,
              requests |-> batch.requests]
        ELSE [err |-> "", raw |-> batch.results[1], requests |-> batch.requests]

------------------------------------------------------------------------------
(* internal/anomaly.go: parseLatestObserved *)

\* parseUSGSTime: the timestamp parse of the current parseLatestObserved
parseUSGSTime(s) == ParseRFC3339(s)

\* the timestamp parse of a variant: the current one calls parseUSGSTime,
\* the thresholdPercent one time.Parse(time.RFC3339, .)
PointTime(variant, s) ==
    IF variant = "current" THEN parseUSGSTime(s) ELSE ParseRFC3339(s)

\* the scan of the points of one value block; acc is [found, latestTime, latestVal]
RECURSIVE LatestInPoints(_, _, _)
LatestInPoints(variant, points, acc) ==
    IF points = <<>> THEN acc
    ELSE LET t == PointTime(variant, Head(points).dateTime)
             v == ScanFloat(Head(points).value)
         IN  IF ~t.ok
             THEN LatestInPoints(variant, Tail(points), acc)
             ELSE IF ~acc.found \/ t.unix > acc.latestTime
             THEN LatestInPoints(variant, Tail(points),
                      [found |-> TRUE, latestTime |-> t.unix, latestVal |-> v])
             ELSE LatestInPoints(variant, Tail(points), acc)

RECURSIVE LatestInBlocks(_, _, _)
LatestInBlocks(variant, blocks, acc) ==
    IF blocks = <<>> THEN acc
    ELSE LatestInBlocks(variant, Tail(blocks),
                        LatestInPoints(variant, Head(blocks), acc))

\* the loop over the series: the first series with an observation answers
RECURSIVE LatestInSeries(_, _)
LatestInSeries(variant, series) ==
    IF series = <<>> THEN [err |-> "no observations found", value |-> 0]
    ELSE LET acc == LatestInBlocks(variant, Head(series).values,
                        [found |-> FALSE, latestTime |-> 0, latestVal |-> 0])
         IN  IF acc.found THEN [err |-> "", value |-> acc.latestVal]
             ELSE LatestInSeries(variant, Tail(series))

LatestObserved(variant, raw) ==
    LET usgs == Unmarshal(raw)
    IN  IF ~usgs.ok THEN [err |-> "invalid JSON", value |-> 0]
        ELSE LatestInSeries(variant, usgs.timeSeries)

\* parseLatestObserved of the current file (lines 203-233)
parseLatestObserved(raw) == LatestObserved("current", raw)

\* parseLatestObserved of the thresholdPercent variant (lines 26-56)
parseLatestObservedRFC3339(raw) == LatestObserved("threshold", raw)

------------------------------------------------------------------------------
(* internal/anomaly.go: the decision of ProcessInferAndDetect *)

minPredictedValue == 15
defaultThresholdPercent == 20

\* math.Round(v*100) / 100: two decimals, halves away from zero
Round2(v) ==
    LET step == Unit \div 100
        mag  == ((Abs(v) + step \div 2) \div step) * step
    IN  IF v < 0 THEN -mag ELSE mag

\* math.Max(1e-9, a) for a >= 0: mant * 10^-shift units; a positive count of
\* units is above 1e-9, and 1e-9 is 10^-(9 - FracDigits) units
MaxEpsilon(a) ==
    IF a >= 1 THEN [mant |-> a, shift |-> 0]
    ELSE [mant |-> 1, shift |-> 9 - FracDigits]

\* a percent change relative to the predicted value
PercentOfPredicted(observed, predicted) ==
    LET den == MaxEpsilon(Abs(predicted))
    IN  [num |-> Abs(predicted - observed) * 100, den |-> den.mant,
         shift |-> den.shift]

\* math.Abs(predicted-observed) / den * 100.0 as the fraction
\* num * 10^shift / den
PercentOf(observed, predicted) ==
    LET den == MaxEpsilon(Abs(observed))
    IN  [num |-> Abs(predicted - observed) * 100, den |-> den.mant,
         shift |-> den.shift]

\* percent > t, for a whole number t of percent
PercentAbove(percent, t) ==
    percent.num > (t * percent.den) \div Pow10(percent.shift)

\* a decision with the floor test >= instead of >
DecideFloorInclusive(key, observed, predicted) ==
    LET percent == PercentOf(observed, predicted)
    IN  [S3Key |-> key,
         ObservedValue |-> Round2(observed),
         PredictedValue |-> Round2(predicted),
         PercentChange |-> percent,
         Anomalous |-> PercentAbove(percent, defaultThresholdPercent)
                           /\ predicted >= minPredictedValue * Unit]

\* a decision that computes the percent change from the rounded values
DecideFromRounded(key, observed, predicted) ==
    LET percent == PercentOf(Round2(observed), Round2(predicted))
    IN  [S3Key |-> key,
         ObservedValue |-> Round2(observed),
         PredictedValue |-> Round2(predicted),
         PercentChange |-> percent,
         Anomalous |-> PercentAbove(percent, defaultThresholdPercent)
                           /\ predicted > minPredictedValue * Unit]

\* lines 338-352: round for the response, percent change, classification
Decide(key, observed, predicted) ==
    LET obsRounded  == Round2(observed)
        predRounded == Round2(predicted)
        percent     == PercentOf(observed, predicted)
        anom        == PercentAbove(percent, defaultThresholdPercent)
                           /\ predicted > minPredictedValue * Unit
    IN  [S3Key |-> key,
         ObservedValue |-> obsRounded,
         PredictedValue |-> predRounded,
         PercentChange |-> percent,
         Anomalous |-> anom]

\* the decision of the variant that takes thresholdPercent (lines 160-170)
DecideThreshold(key, observed, predicted, thresholdPercent) ==
    LET percent == PercentOf(observed, predicted)
        anom    == PercentAbove(percent, thresholdPercent)
    IN  [S3Key |-> key,
         ObservedValue |-> observed,
         PredictedValue |-> predicted,
         PercentChange |-> percent,
         Anomalous |-> anom]

------------------------------------------------------------------------------
(* internal/anomaly.go: ProcessInferAndDetect.  The collaborators are the   *)
(* world w: w.fetch the provider's answers, w.wx the weather answers,       *)
(* w.saveOk whether PutObject succeeds, w.invoke what the endpoint answers  *)
(* ([err, out]), w.now the clock; cfg is the environment (S3_BUCKET,        *)
(* SAGEMAKER_ENDPOINT, DEFAULT_MODEL).                                      *)

\* the features-only payload: every non-blank line without its first column
RECURSIVE StripLines(_)
StripLines(lines) ==
    IF lines = <<>> THEN <<>>
    ELSE LET line == TrimSpace(Head(lines))
             cols == Split(line, COMMA)
             kept == IF Len(cols) > 1 THEN Tail(cols) ELSE cols
         IN  IF line = <<>> THEN StripLines(Tail(lines))
             ELSE Join(kept, COMMA) \o <<NL>> \o StripLines(Tail(lines))

StripLabels(csvBytes) == StripLines(Split(TrimSpace(csvBytes), NL))

\* fmt.Sprintf("processed/%s/%d.csv", stationID, now)
ProcessedKey(stationID, now) == <<"processed", stationID, now>>

DefaultParameter(parameter) == IF parameter = "" THEN "00060" ELSE parameter

\* what a call returns and does: res is the *AnomalyResult (Nil with an
\* error), trace the stages run, puts the objects stored, requests the
\* provider requests, sent the payloads sent to the endpoint, lookups the
\* number of weather lookups, observed and predicted the unrounded values
Nil == [nil |-> TRUE]

NoEffects ==
    [err |-> "", res |-> Nil, trace |-> <<>>, puts |-> <<>>, requests |-> <<>>,
     sent |-> <<>>, lookups |-> 0, observed |-> 0, predicted |-> 0]

\* SaveToS3WithKey: the objects stored by one PutObject
SaveToS3WithKey(data, bucket, key, saveOk) ==
    IF saveOk THEN <<[bucket |-> bucket, key |-> key, data |-> data]>> ELSE <<>>

\* a variant that invokes the endpoint before the configuration is checked
InferAndParseInvokeFirst(csvBytes, cfg, w, done) ==
    IF cfg.endpoint = "" \/ cfg.model = ""
    THEN [done EXCEPT !.trace = @ \o <<"invoke", "config">>,
                      !.sent = <<StripLabels(csvBytes)>>,
                      !.err = "not configured"]
    ELSE IF w.invoke.err
    THEN [done EXCEPT !.trace = @ \o <<"config", "invoke">>,
                      !.sent = <<StripLabels(csvBytes)>>,
                      !.err = "invoke failed"]
    ELSE With(parsePredictions(w.invoke.out), LAMBDA pred :
             [done EXCEPT !.trace = @ \o <<"config", "invoke", "parse">>,
                          !.sent = <<StripLabels(csvBytes)>>,
                          !.err = pred.err,
                          !.predicted = IF pred.err # "" THEN @ ELSE pred.value])

\* from the endpoint configuration to the parsed prediction (lines 302-336)
InferAndParse(csvBytes, cfg, w, done) ==
    IF cfg.endpoint = ""
    THEN [done EXCEPT !.err = "SAGEMAKER_ENDPOINT not configured",
                      !.trace = @ \o <<"config">>]
    ELSE IF cfg.model = ""
    THEN [done EXCEPT !.err = "DEFAULT_MODEL not configured",
                      !.trace = @ \o <<"config">>]
    ELSE IF w.invoke.err
    THEN [done EXCEPT !.trace = @ \o <<"config", "invoke">>,
                      !.sent = <<StripLabels(csvBytes)>>,
                      !.err = "invoke failed"]
    ELSE With(parsePredictions(w.invoke.out), LAMBDA pred :
             [done EXCEPT !.trace = @ \o <<"config", "invoke", "parse">>,
                          !.sent = <<StripLabels(csvBytes)>>,
                          !.err = pred.err,
                          !.predicted = IF pred.err # "" THEN @ ELSE pred.value])

\* a save that is made only once the endpoint and the model are configured
PersistWhenConfigured(stationID, csv, cfg, w, encoded) ==
    IF cfg.bucket # "" /\ cfg.endpoint # "" /\ cfg.model # ""
    THEN [encoded EXCEPT
             !.trace = @ \o <<"persist">>,
             !.puts = SaveToS3WithKey(csv, cfg.bucket,
                                      ProcessedKey(stationID, w.now), w.saveOk)]
    ELSE encoded

\* lines 296-300: the CSV is stored when S3_BUCKET is set
Persist(stationID, csv, cfg, w, encoded) ==
    IF cfg.bucket # ""
    THEN [encoded EXCEPT
             !.trace = @ \o <<"persist">>,
             !.puts = SaveToS3WithKey(csv, cfg.bucket,
                                      ProcessedKey(stationID, w.now), w.saveOk)]
    ELSE encoded

\* a variant in which a failed save ends the call
EncodeAndInferAbortOnSave(stationID, raw, observed, cfg, w, extracted) ==
    With(PreprocessDataCSV(raw, w.wx), LAMBDA enc :
        IF enc.err # ""
        THEN [extracted EXCEPT !.trace = @ \o <<"encode">>,
                               !.lookups = enc.lookups,
                               !.observed = observed,
                               !.err = enc.err]
        ELSE IF cfg.bucket # "" /\ ~w.saveOk
        THEN [extracted EXCEPT !.trace = @ \o <<"encode", "persist">>,
                               !.lookups = enc.lookups,
                               !.observed = observed,
                               !.err = "save failed"]
        ELSE InferAndParse(enc.csv, cfg, w,
                 Persist(stationID, enc.csv, cfg, w,
                     [extracted EXCEPT !.trace = @ \o <<"encode">>,
                                       !.lookups = enc.lookups,
                                       !.observed = observed])))

\* encode, persist, infer (lines 291-336), after observed was extracted
EncodeAndInfer(stationID, raw, observed, cfg, w, extracted) ==
    With(PreprocessDataCSV(raw, w.wx), LAMBDA enc :
        IF enc.err # ""
        THEN [extracted EXCEPT !.trace = @ \o <<"encode">>,
                               !.lookups = enc.lookups,
                               !.observed = observed,
                               !.err = enc.err]
        ELSE InferAndParse(enc.csv, cfg, w,
                 Persist(stationID, enc.csv, cfg, w,
                     [extracted EXCEPT !.trace = @ \o <<"encode">>,
                                       !.lookups = enc.lookups,
                                       !.observed = observed])))

\* the current ProcessInferAndDetect (lines 273-353)
ProcessInferAndDetect(stationID, parameter, cfg, w) ==
    IF stationID = <<>>
    THEN [NoEffects EXCEPT !.err = "station id required"]
    ELSE With(GetWaterDataBatch(<<stationID>>, DefaultParameter(parameter), w.fetch),
         LAMBDA batch :
             IF batch.err # ""
             THEN [NoEffects EXCEPT !.trace = <<"fetch">>,
                                    !.requests = batch.requests,
                                    !.err = batch.err]
             ELSE With(parseLatestObserved(batch.results[1]), LAMBDA obs :
                 IF obs.err # ""
                 THEN [NoEffects EXCEPT !.trace = <<"fetch", "extract">>,
                                        !.requests = batch.requests,
                                        !.err = obs.err]
                 ELSE With(EncodeAndInfer(stationID, batch.results[1], obs.value,
                               cfg, w,
                               [NoEffects EXCEPT !.trace = <<"fetch", "extract">>,
                                                 !.requests = batch.requests]),
                      LAMBDA inf :
                          IF inf.err # "" THEN inf
                          ELSE [inf EXCEPT
                                   !.res = Decide(ProcessedKey(stationID, w.now),
                                                  obs.value, inf.predicted),
                                   !.trace = @ \o <<"decide">>])))

\* the ProcessInferAndDetect that takes thresholdPercent (lines 96-171)
ProcessInferAndDetectThreshold(stationID, parameter, thresholdPercent, cfg, w) ==
    IF stationID = <<>>
    THEN [NoEffects EXCEPT !.err = "station id required"]
    ELSE With(GetWaterData(stationID, DefaultParameter(parameter), w.fetch),
         LAMBDA got :
             IF got.err # ""
             THEN [NoEffects EXCEPT !.trace = <<"fetch">>,
                                    !.requests = got.requests,
                                    !.err = got.err]
             ELSE With(parseLatestObservedRFC3339(got.raw), LAMBDA obs :
                 IF obs.err # ""
                 THEN [NoEffects EXCEPT !.trace = <<"fetch", "extract">>,
                                        !.requests = got.requests,
                                        !.err = obs.err]
                 ELSE With(EncodeAndInfer(stationID, got.raw, obs.value, cfg, w,
                               [NoEffects EXCEPT !.trace = <<"fetch", "extract">>,
                                                 !.requests = got.requests]),
                      LAMBDA inf :
                          IF inf.err # "" THEN inf
                          ELSE [inf EXCEPT
                                   !.res = DecideThreshold(
                                               ProcessedKey(stationID, w.now),
                                               obs.value, inf.predicted,
                                               thresholdPercent),
                                   !.trace = @ \o <<"decide">>])))

------------------------------------------------------------------------------
(* cmd/api/handler/handler.go: AnomalyCheckHandler.  A request is [method,  *)
(* bodyOk (the body decodes as JSON), sites, threshold (threshold_percent,  *)
(* 0 when absent), parameter]; worlds[i] is the world of the i-th site.     *)

\* lines 433-441: the item appended for a result
ItemOf(site, res) ==
    [Site |-> site,
     S3Key |-> res.S3Key,
     ObservedValue |-> res.ObservedValue,
     PredictedValue |-> res.PredictedValue,
     PercentChange |-> res.PercentChange,
     Anomalous |-> res.Anomalous,
     AnomalousReason |-> IF res.Anomalous THEN "high discharge" ELSE ""]

\* a loop that ends at the first site whose pipeline fails
RECURSIVE CheckSitesStopAtFailure(_, _, _, _, _, _, _)
CheckSitesStopAtFailure(sites, parameter, threshold, cfg, worlds, i, acc) ==
    IF i > Len(sites) THEN acc
    ELSE IF TrimSpace(sites[i]) = <<>>
    THEN CheckSitesStopAtFailure(sites, parameter, threshold, cfg, worlds, i + 1, acc)
    ELSE With(ProcessInferAndDetectThreshold(TrimSpace(sites[i]), parameter,
                                             threshold, cfg, worlds[i]),
         LAMBDA out :
             IF out.err # ""
             THEN [items |-> acc.items,
                   processed |-> Append(acc.processed, i),
                   effects |-> Append(acc.effects, out)]
             ELSE CheckSitesStopAtFailure(sites, parameter, threshold, cfg, worlds,
                      i + 1,
                      [items |-> Append(acc.items,
                                        ItemOf(TrimSpace(sites[i]), out.res)),
                       processed |-> Append(acc.processed, i),
                       effects |-> Append(acc.effects, out)]))

\* the loop over the sites: acc is [items, processed, effects]
RECURSIVE CheckSites(_, _, _, _, _, _, _)
CheckSites(sites, parameter, threshold, cfg, worlds, i, acc) ==
    IF i > Len(sites) THEN acc
    ELSE IF TrimSpace(sites[i]) = <<>>
    THEN CheckSites(sites, parameter, threshold, cfg, worlds, i + 1, acc)
    ELSE With(ProcessInferAndDetectThreshold(TrimSpace(sites[i]), parameter,
                                             threshold, cfg, worlds[i]),
         LAMBDA out :
             CheckSites(sites, parameter, threshold, cfg, worlds, i + 1,
                 [items |-> IF out.err # "" THEN acc.items
                            ELSE Append(acc.items,
                                        ItemOf(TrimSpace(sites[i]), out.res)),
                  processed |-> Append(acc.processed, i),
                  effects |-> Append(acc.effects, out)]))

\* a selection that takes every item, anomalous or not
AnomalousSitesEveryItem(items) ==
    [k \in 1..Len(items) |-> items[k].Site]

\* the sites of the anomalous items, in order
RECURSIVE AnomalousSites(_)
AnomalousSites(items) ==
    IF items = <<>> THEN <<>>
    ELSE IF Head(items).Anomalous
    THEN <<Head(items).Site>> \o AnomalousSites(Tail(items))
    ELSE AnomalousSites(Tail(items))

\* the objects stored by the pipelines of a request, in order
RECURSIVE AllPuts(_)
AllPuts(effects) ==
    IF effects = <<>> THEN <<>> ELSE Head(effects).puts \o AllPuts(Tail(effects))

\* a response that was written without running any site
Rejected(status) ==
    [status |-> status, items |-> <<>>, alerts |-> <<>>, processed |-> <<>>,
     effects |-> <<>>]

\* [status, items, alerts, processed, effects]: alerts are the PublishAlert
\* calls, processed the indexes of the sites whose pipeline ran, effects
\* what each of those pipelines returned and did
AnomalyCheckHandler(req, cfg, worlds, publishOk) ==
    IF req.method # "POST" THEN Rejected(405)
    ELSE IF ~req.bodyOk THEN Rejected(400)
    ELSE IF Len(req.sites) = 0 THEN Rejected(400)
    ELSE IF Len(req.sites) > 10 THEN Rejected(400)
    ELSE With(CheckSites(req.sites,
                         IF req.parameter = "" THEN "00060" ELSE req.parameter,
                         IF req.threshold <= 0 THEN 10 ELSE req.threshold,
                         cfg, worlds, 1,
                         [items |-> <<>>, processed |-> <<>>, effects |-> <<>>]),
         LAMBDA looped :
             With(AnomalousSites(looped.items), LAMBDA anomalous :
                 [status |-> 200, items |-> looped.items,
                  alerts |-> IF Len(anomalous) > 0
                             THEN <<[count |-> Len(anomalous), sites |-> anomalous,
                                     delivered |-> publishOk]>>
                             ELSE <<>>,
                  processed |-> looped.processed, effects |-> looped.effects]))

------------------------------------------------------------------------------
(* The blob store (internal/storage.go). *)

\* PutObject of each of puts, in order: a later object replaces an earlier
\* one with the same bucket and key
RECURSIVE ApplyPuts(_, _)
ApplyPuts(store, puts) ==
    IF puts = <<>> THEN store
    ELSE LET o == Head(puts)
         IN  ApplyPuts({x \in store : ~(x.bucket = o.bucket /\ x.key = o.key)}
                           \cup {o},
                       Tail(puts))

\* LoadFromS3: [err, data]; GetObject fails when the object is missing or
\* when the store is unreachable (loadFails)
LoadFromS3(store, bucket, key, loadFails) ==
    LET found == {x \in store : x.bucket = bucket /\ x.key = key}
    IN  IF loadFails \/ found = {}
        THEN [err |-> "GetObject failed", data |-> <<>>]
        ELSE [err |-> "", data |-> (CHOOSE x \in found : TRUE).data]

------------------------------------------------------------------------------
(* lambdas/preprocess: handler.  The world w has w.daily and w.iv, the      *)
(* provider's answers to the daily and the instantaneous requests, w.wxs    *)
(* the weather answers per payload, w.loadFails and w.saveOk.               *)

\* the document embedded in the handler: one series, one point of 72.3
MockDocument ==
    JSONPayload(<<[lat |-> Dec(40, 101), lng |-> -Dec(87, 598),
                   values |-> <<<<[value |-> <<"7", "2", ".", "3">>,
                                   dateTime |-> "2025-08-24T10:15:00.000-06:00"]>>>>]>>)

\* a variant that puts a newline between the blocks whatever the buffer ends with
RECURSIVE BatchLoopAlwaysNewline(_, _, _, _)
BatchLoopAlwaysNewline(rawPayloads, wxs, i, buf) ==
    IF i > Len(rawPayloads) THEN [err |-> "", csv |-> buf]
    ELSE IF IsEmptyPayload(rawPayloads[i])
    THEN BatchLoopAlwaysNewline(rawPayloads, wxs, i + 1, buf)
    ELSE With(PreprocessDataCSV(rawPayloads[i], wxs[i]), LAMBDA b :
             IF b.err # "" THEN [err |-> b.err, csv |-> <<>>]
             ELSE BatchLoopAlwaysNewline(rawPayloads, wxs, i + 1,
                      (IF Len(buf) > 0 THEN Append(buf, NL) ELSE buf) \o b.csv))

\* the loop of PreprocessDataCSVBatch from payload i on; buf is the buffer
RECURSIVE BatchLoop(_, _, _, _)
BatchLoop(rawPayloads, wxs, i, buf) ==
    IF i > Len(rawPayloads) THEN [err |-> "", csv |-> buf]
    ELSE IF IsEmptyPayload(rawPayloads[i])
    THEN BatchLoop(rawPayloads, wxs, i + 1, buf)
    ELSE With(PreprocessDataCSV(rawPayloads[i], wxs[i]), LAMBDA b :
             IF b.err # "" THEN [err |-> b.err, csv |-> <<>>]
             ELSE BatchLoop(rawPayloads, wxs, i + 1,
                      (IF Len(buf) > 0 /\ buf[Len(buf)] # NL
                       THEN Append(buf, NL) ELSE buf) \o b.csv))

PreprocessDataCSVBatch(rawPayloads, wxs) == BatchLoop(rawPayloads, wxs, 1, <<>>)

NotTried == [err |-> "not tried", results |-> <<>>, requests |-> <<>>]

\* a fetch stage that asks the instantaneous service first
FetchTiersInstantaneousFirst(stationIDs, parameter, w) ==
    With(GetWaterDataBatch(stationIDs, parameter, w.iv), LAMBDA iv :
        IF iv.err = ""
        THEN [tier |-> "iv", rawPayloads |-> iv.results, daily |-> NotTried,
              iv |-> iv, requests |-> iv.requests]
        ELSE With(GetWaterDailyDataLast30DaysBatch(stationIDs, parameter, w.daily),
             LAMBDA daily :
                 [tier |-> IF daily.err = "" THEN "daily" ELSE "mock",
                  rawPayloads |-> IF daily.err = "" THEN daily.results
                                  ELSE <<MockDocument>>,
                  daily |-> daily, iv |-> iv,
                  requests |-> iv.requests \o daily.requests]))

\* lines 71-81: daily values, else instantaneous values, else the embedded
\* document; daily and iv are what each batch fetch returned
FetchTiers(stationIDs, parameter, w) ==
    With(GetWaterDailyDataLast30DaysBatch(stationIDs, parameter, w.daily),
    LAMBDA daily :
        IF daily.err = ""
        THEN [tier |-> "daily", rawPayloads |-> daily.results, daily |-> daily,
              iv |-> NotTried, requests |-> daily.requests]
        ELSE With(GetWaterDataBatch(stationIDs, parameter, w.iv), LAMBDA iv :
                 [tier |-> IF iv.err = "" THEN "iv" ELSE "mock",
                  rawPayloads |-> IF iv.err = "" THEN iv.results
                                  ELSE <<MockDocument>>,
                  daily |-> daily, iv |-> iv,
                  requests |-> daily.requests \o iv.requests]))

\* a variant that puts a newline after the stored content whatever its end
AccumulateAlwaysNewline(existing, csvBytes) ==
    IF existing.err = "" /\ Len(existing.data) > 0
    THEN Append(existing.data, NL) \o csvBytes
    ELSE csvBytes

\* lines 88-98: the stored content followed by the new rows
Accumulate(existing, csvBytes) ==
    IF existing.err = "" /\ Len(existing.data) > 0
    THEN (IF existing.data[Len(existing.data)] # NL
          THEN Append(existing.data, NL) ELSE existing.data) \o csvBytes
    ELSE csvBytes

NoFetch ==
    [tier |-> "", rawPayloads |-> <<>>, daily |-> NotTried, iv |-> NotTried,
     requests |-> <<>>]

\* [err, fetch, trace, csv, store]: fetch is what the fetch stage handed on,
\* trace the stages run, csv the bytes saved, store the blob store afterwards
PreprocessHandler(input, store, w) ==
    IF input.Bucket = "" \/ Len(input.StationID) = 0 \/ input.Parameter = ""
           \/ input.ProcessedKey = ""
    THEN [err |-> "missing required fields", fetch |-> NoFetch, trace |-> <<>>,
          csv |-> <<>>, store |-> store]
    ELSE With(FetchTiers(input.StationID, input.Parameter, w), LAMBDA fetch :
         With(PreprocessDataCSVBatch(fetch.rawPayloads, w.wxs), LAMBDA enc :
             IF enc.err # ""
             THEN [err |-> "preprocessing failed", fetch |-> fetch,
                   trace |-> <<"fetch", "encode">>, csv |-> <<>>, store |-> store]
             ELSE With(Accumulate(LoadFromS3(store, input.Bucket,
                                             input.ProcessedKey, w.loadFails),
                                  enc.csv),
                  LAMBDA csvBytes :
                      [err |-> IF w.saveOk THEN ""
                               ELSE "failed to save processed data",
                       fetch |-> fetch,
                       trace |-> <<"fetch", "encode", "load", "save">>,
                       csv |-> csvBytes,
                       store |-> ApplyPuts(store,
                                     SaveToS3WithKey(csvBytes, input.Bucket,
                                         input.ProcessedKey, w.saveOk))])))

------------------------------------------------------------------------------
(* lambdas/infer: handler.  input is the inferInput, env the environment    *)
(* (endpoint is SAGEMAKER_ENDPOINT, model DEFAULT_MODEL); the world w has   *)
(* w.loadFails, w.invoke (what the endpoint answers), w.trackerOk (PutItem  *)
(* succeeds) and w.now, the clock.                                          *)

\* strings.HasPrefix(s, prefix)
HasPrefix(s, prefix) ==
    Len(prefix) <= Len(s) /\ SubSeq(s, 1, Len(prefix)) = prefix

\* strings.TrimPrefix(s, prefix) for a prefix of any length
TrimPrefixText(s, prefix) ==
    IF HasPrefix(s, prefix) THEN SubSeq(s, Len(prefix) + 1, Len(s)) ELSE s

\* strings.Index(s, substr): the 0-based index of the first occurrence, or -1
Index(s, substr) ==
    LET at == {i \in 0..(Len(s) - Len(substr)) :
                  SubSeq(s, i + 1, i + Len(substr)) = substr}
    IN  IF at = {} THEN -1 ELSE CHOOSE i \in at : \A j \in at : i <= j

\* strings.Split(s, sep) for a non-empty separator of any length
RECURSIVE SplitText(_, _)
SplitText(s, sep) ==
    IF Index(s, sep) = -1 THEN <<s>>
    ELSE <<SubSeq(s, 1, Index(s, sep))>>
             \o SplitText(SubSeq(s, Index(s, sep) + Len(sep) + 1, Len(s)), sep)

\* the records of csv.Reader from line i on: an empty line is skipped, a
\* record with another number of fields than the first one is an error
\* (the texts of the model hold no quote and no carriage return)
RECURSIVE ReadRecords(_, _, _)
ReadRecords(lines, i, records) ==
    IF i > Len(lines) THEN [err |-> "", records |-> records]
    ELSE IF lines[i] = <<>> THEN ReadRecords(lines, i + 1, records)
    ELSE IF records # <<>> /\ Len(Split(lines[i], COMMA)) # Len(records[1])
    THEN [err |-> "wrong number of fields", records |-> <<>>]
    ELSE ReadRecords(lines, i + 1, Append(records, Split(lines[i], COMMA)))

\* csv.NewReader(strings.NewReader(string(csvData))).ReadAll()
ReadAll(csvData) == ReadRecords(Split(csvData, NL), 1, <<>>)

\* lines 71-83: every record without its first column
RECURSIVE FeatureRows(_)
FeatureRows(records) ==
    IF records = <<>> THEN <<>>
    ELSE IF Len(Head(records)) = 0 THEN FeatureRows(Tail(records))
    ELSE Join(IF Len(Head(records)) > 1 THEN Tail(Head(records))
              ELSE Head(records), COMMA)
             \o <<NL>> \o FeatureRows(Tail(records))

ModelPrefix(bucket) ==
    <<"s", "3", ":", "/", "/">> \o bucket \o <<"/", "m", "o", "d", "e", "l">>

\* lines 93-108: the training job name in the artifact URI, else train-<now>
TrackerUUID(artifacts, now) ==
    With(SplitText(artifacts, <<"/", "m", "o", "d", "e", "l", "/">>), LAMBDA parts :
        With(IF Len(parts) # 2 THEN <<>>
             ELSE IF Index(parts[2], <<"/">>) > 0
             THEN SubSeq(parts[2], 1, Index(parts[2], <<"/">>))
             ELSE parts[2],
        LAMBDA uuid :
            IF uuid = <<>> THEN <<"t", "r", "a", "i", "n", "-">> \o NatToText(now)
            ELSE uuid))

\* SaveTrainModelTrackerItem: the records written by one PutItem
SaveTrainModelTrackerItem(item, now, trackerOk) ==
    IF item.UUID = <<>> \/ ~trackerOk THEN {}
    ELSE {[uuid |-> item.UUID,
           createdon |-> IF item.CreatedOn = 0 THEN now ELSE item.CreatedOn,
           sites |-> item.Sites, gsi_pk |-> "recent"]}

NoInference == [err |-> "", trace |-> <<>>, sent |-> <<>>, records |-> <<>>,
                targetModel |-> <<>>, tracked |-> {}]

\* lines 60-118, once the target model is known
LoadAndInfer(input, artifacts, env, store, w) ==
    With(LoadFromS3(store, input.Bucket, input.ProcessedKey, w.loadFails),
    LAMBDA loaded :
        IF loaded.err # ""
        THEN [NoInference EXCEPT !.err = "failed to load processed data",
                                 !.trace = <<"load">>]
        ELSE With(ReadAll(loaded.data), LAMBDA read :
            IF read.err # ""
            THEN [NoInference EXCEPT !.err = "failed to parse csv",
                                     !.trace = <<"load", "parse">>]
            ELSE [err |-> IF w.invoke.err THEN "failed to invoke endpoint" ELSE "",
                  trace |-> IF w.invoke.err THEN <<"load", "parse", "invoke">>
                            ELSE <<"load", "parse", "invoke", "track">>,
                  sent |-> <<FeatureRows(read.records)>>,
                  records |-> read.records,
                  targetModel |-> TrimPrefixText(artifacts, ModelPrefix(input.Bucket)),
                  tracked |-> IF w.invoke.err THEN {}
                              ELSE SaveTrainModelTrackerItem(
                                       [UUID |-> TrackerUUID(artifacts, w.now),
                                        CreatedOn |-> w.now,
                                        Sites |-> input.Sites],
                                       w.now, w.trackerOk)]))

\* [err, trace, sent, records, targetModel, tracked]: sent are the payloads
\* sent to the endpoint, tracked the tracker records written
InferHandler(input, env, store, w) ==
    IF input.Bucket = <<>> \/ input.ProcessedKey = ""
    THEN [NoInference EXCEPT !.err = "missing required fields"]
    ELSE IF env.endpoint = ""
    THEN [NoInference EXCEPT !.err = "SAGEMAKER_ENDPOINT not configured"]
    ELSE IF input.S3ModelArtifacts = <<>> /\ env.model = <<>>
    THEN [NoInference EXCEPT !.err = "DEFAULT_MODEL not configured"]
    ELSE LoadAndInfer(input,
                      IF input.S3ModelArtifacts = <<>> THEN env.model
                      ELSE input.S3ModelArtifacts,
                      env, store, w)

------------------------------------------------------------------------------
(* Inputs of parsePredictions: every text over PredChars up to MaxLen, and   *)
(* the outputs the documentation names.                                      *)

PredChars == {"6", "5", ".", "a", "[", "]", COMMA, SP, NL}

RECURSIVE TextsUpTo(_, _)
TextsUpTo(chars, n) ==
    IF n = 0 THEN {<<>>}
    ELSE LET shorter == TextsUpTo(chars, n - 1)
         IN  shorter \cup {Append(s, c) : s \in {t \in shorter : Len(t) = n - 1},
                                          c \in chars}

OutBracket == <<"[", "6", "6", ".", "5", "]">>
OutLines == <<"1", "0", NL, "2", "0", NL, "6", "6", ".", "5">>
OutCommas == <<"1", "0", COMMA, "2", "0", COMMA, "6", "6", ".", "5">>
OutMixed == <<SP, "[", "-", "1", ".", "5", CR, NL, "a", "b", TAB, "+", "7", "]", NL>>
OutNested == <<"[", "[", "6", "6", "]", "]">>
OutFormFeed == <<"a", COMMA, FF, "5", FF, COMMA, FF>>

PredOutputs ==
    TextsUpTo(PredChars, MaxLen)
        \cup {OutBracket, OutLines, OutCommas, OutMixed, OutNested, OutFormFeed}

ParseInit ==
    /\ ppOutput \in PredOutputs
    /\ ppResult = NotCalled

ParseIdle ==
    /\ ppOutput = <<>>
    /\ ppResult = NotCalled

ParsePredictionsCall ==
    /\ ppResult = NotCalled
    /\ ppResult' = [called |-> TRUE] @@ parsePredictions(ppOutput)
    /\ UNCHANGED ppOutput

------------------------------------------------------------------------------
(* Inputs of PreprocessDataCSV: every document of at most MaxItems items,    *)
(* where an item is a point, a break between value blocks or a break        *)
(* between series; and payloads that are not documents.                     *)

PtGood == [kind |-> "point", value |-> <<"7", "2", ".", "3">>,
           dateTime |-> "2025-08-24T10:15:00.000-06:00"]
PtNoZone == [kind |-> "point", value |-> <<"5">>,
             dateTime |-> "2025-08-22T00:00:00.000"]
PtNoValue == [kind |-> "point", value |-> <<"a">>,
              dateTime |-> "2025-08-23T12:00:00Z"]
PtPartial == [kind |-> "point", value |-> <<"-", "1", "2", ".", "5", "a">>,
              dateTime |-> "2025-08-24T10:30:00-06:00"]
BlockBreak == [kind |-> "block", value |-> <<>>, dateTime |-> ""]
SeriesBreak == [kind |-> "series", value |-> <<>>, dateTime |-> ""]

DocItems == {PtGood, PtNoZone, PtNoValue, BlockBreak, SeriesBreak}

\* the location of the i-th series of a generated document
SiteLat(i) == IF i % 2 = 1 THEN Dec(40, 101) ELSE Dec(38, 500)
SiteLng(i) == IF i % 2 = 1 THEN -Dec(87, 598) ELSE -Dec(90, 200)

PointOf(item) == [value |-> item.value, dateTime |-> item.dateTime]

BlockOf(items) == [k \in 1..Len(items) |-> PointOf(items[k])]

SeriesOf(items, i) ==
    LET blocks == Split(items, BlockBreak)
    IN  [lat |-> SiteLat(i), lng |-> SiteLng(i),
         values |-> [j \in 1..Len(blocks) |-> BlockOf(blocks[j])]]

DocOf(items) ==
    LET parts == Split(items, SeriesBreak)
    IN  JSONPayload([i \in 1..Len(parts) |-> SeriesOf(parts[i], i)])

EncPayloads ==
    {DocOf(items) : items \in TextsUpTo(DocItems, MaxItems)}
        \cup {DocOf(<<PtPartial, PtGood>>), JSONPayload(<<>>),
              NilPayload, GarbagePayload}

\* what FetchWeatherForecast can answer: an error, or a temperature
WxOutcomes == {[err |-> TRUE, temp |-> 0],
               [err |-> FALSE, temp |-> 75],
               [err |-> FALSE, temp |-> -3]}

NumSeries(raw) == Len(Unmarshal(raw).timeSeries)

EncodeInit ==
    /\ encRaw \in EncPayloads
    /\ encResult = NotCalled

EncodeIdle ==
    /\ encRaw = NilPayload
    /\ encResult = NotCalled

PreprocessDataCSVCall ==
    /\ encResult = NotCalled
    /\ \E wx \in [1..NumSeries(encRaw) -> WxOutcomes] :
           encResult' = [called |-> TRUE, wx |-> wx] @@ PreprocessDataCSV(encRaw, wx)
    /\ UNCHANGED encRaw

------------------------------------------------------------------------------
(* Inputs of ProcessInferAndDetect. *)

Station03 == <<"0", "3">>
Station05 == <<"0", "5">>
BlankStation == <<SP>>

\* a document with one series holding one point of the given value
ObsDoc(valueText) ==
    DocOf(<<[kind |-> "point", value |-> valueText,
             dateTime |-> "2025-08-24T10:15:00.000-06:00"]>>)

ObsTexts ==
    {<<"0">>, <<"1">>, <<"5">>, <<"1", "0">>, <<"1", "2">>, <<"7", "2", ".", "3">>,
     <<"1", "0", "0">>, <<"1", "0", ".", "0", "0", "4">>,
     <<"1", "0", ".", "0", "0", "5">>, <<"-", "5", ".", "0", "0", "5">>,
     <<"1", "4", ".", "9", "9", "6">>}

\* a point a day before PtGood, and one at the time of PtGood
PtEarly == [kind |-> "point", value |-> <<"5">>,
            dateTime |-> "2025-08-23T12:00:00Z"]
PtTie == [kind |-> "point", value |-> <<"1", "0">>,
          dateTime |-> "2025-08-24T10:15:00.000-06:00"]

PidPayloads ==
    {ObsDoc(t) : t \in ObsTexts}
        \cup {DocOf(<<PtNoZone>>), DocOf(<<PtNoValue, PtNoZone, BlockBreak, PtGood>>),
              DocOf(<<PtEarly, SeriesBreak, PtGood>>),
              DocOf(<<PtNoZone, SeriesBreak, PtGood, PtTie, PtEarly>>),
              GarbagePayload}

FetchAnswers(payloads) ==
    {[kind |-> k, body |-> NilPayload] : k \in {"reqErr", "status", "readErr"}}
        \cup {[kind |-> "ok", body |-> b] : b \in payloads}

PidOutputs ==
    {<<"0">>, <<"6">>, <<"1", "0">>, <<"1", "2">>, <<"1", "4">>, <<"1", "5">>,
     <<"1", "5", ".", "0", "0", "1">>, <<"1", "4", ".", "9", "9", "6">>,
     <<"2", "0">>, <<"6", "6", ".", "2">>, <<"1", "1", "5">>, <<"1", "2", "0">>,
     <<"-", "2", "0">>, OutBracket, OutLines, <<"a">>, <<>>}

InvokeAnswers(outputs) ==
    {[err |-> TRUE, out |-> <<>>]} \cup {[err |-> FALSE, out |-> o] : o \in outputs}

Configs ==
    [bucket : {"", "aquawatch-data"}, endpoint : {"", "aquawatch-endpoint"},
     model : {"", "model.tar.gz"}]

Worlds(payloads, outputs) ==
    UNION {[fetch : {<<a>>}, wx : [1..NumSeries(a.body) -> WxOutcomes],
            saveOk : BOOLEAN, invoke : InvokeAnswers(outputs), now : {1756060000}]
               : a \in FetchAnswers(payloads)}

DetectInit ==
    /\ pidIn \in [stationID : {<<>>, BlankStation, Station03},
                  parameter : {"", "00065"}, cfg : Configs]
    /\ pidOut = NotCalled

DetectIdle ==
    /\ pidIn = [stationID |-> <<>>, parameter |-> "",
                cfg |-> [bucket |-> "", endpoint |-> "", model |-> ""]]
    /\ pidOut = NotCalled

ProcessInferAndDetectCall ==
    /\ pidOut = NotCalled
    /\ \E w \in Worlds(PidPayloads, PidOutputs) :
           \E out \in {ProcessInferAndDetect(pidIn.stationID, pidIn.parameter,
                                             pidIn.cfg, w)} :
               /\ pidOut' = [called |-> TRUE, w |-> w] @@ out
               /\ s3Objects' = ApplyPuts(s3Objects, out.puts)
    /\ UNCHANGED pidIn

------------------------------------------------------------------------------
(* Inputs of AnomalyCheckHandler. *)

FullConfig ==
    [bucket |-> "aquawatch-data", endpoint |-> "aquawatch-endpoint",
     model |-> "model.tar.gz"]

HandlerSites == {BlankStation, Station03, Station05}

ElevenSites == [i \in 1..11 |-> Station03]

HandlerRequests ==
    [method : {"POST"}, bodyOk : {TRUE},
     sites : TextsUpTo(HandlerSites, MaxSites) \cup {ElevenSites},
     threshold : {-5, 0, 10, 30}, parameter : {""}]
        \cup [method : {"GET"}, bodyOk : {TRUE}, sites : {<<Station03>>},
              threshold : {0}, parameter : {""}]
        \cup [method : {"POST"}, bodyOk : {FALSE}, sites : {<<>>},
              threshold : {0}, parameter : {""}]

HandlerWorlds ==
    [fetch : {<<a>> : a \in {[kind |-> "status", body |-> NilPayload],
                             [kind |-> "ok", body |-> ObsDoc(<<"1">>)],
                             [kind |-> "ok", body |-> ObsDoc(<<"1", "0", "0">>)]}},
     wx : {<<[err |-> FALSE, temp |-> 75]>>},
     saveOk : {TRUE},
     invoke : InvokeAnswers({<<"1", "4">>, <<"1", "1", "5">>}),
     now : {1756060000}]

\* a world for every site; the world of a blank site, and that of any site
\* of a request with more than 10 sites, is never consulted
WorldsFor(sites) ==
    IF Len(sites) > 10
    THEN {[i \in 1..Len(sites) |-> CHOOSE w \in HandlerWorlds : TRUE]}
    ELSE {ws \in [1..Len(sites) -> HandlerWorlds] :
             \A i \in 1..Len(sites) :
                 TrimSpace(sites[i]) = <<>> =>
                     ws[i] = CHOOSE w \in HandlerWorlds : TRUE}

HandlerInit ==
    /\ achIn \in [req : HandlerRequests,
                  cfg : {FullConfig, [FullConfig EXCEPT !.bucket = ""]}]
    /\ achOut = NotCalled

HandlerIdle ==
    /\ achIn = [req |-> [method |-> "GET", bodyOk |-> FALSE, sites |-> <<>>,
                         threshold |-> 0, parameter |-> ""],
                cfg |-> FullConfig]
    /\ achOut = NotCalled

AnomalyCheckHandlerCall ==
    /\ achOut = NotCalled
    /\ \E ws \in WorldsFor(achIn.req.sites), publishOk \in BOOLEAN :
           \E out \in {AnomalyCheckHandler(achIn.req, achIn.cfg, ws, publishOk)} :
               /\ achOut' = [called |-> TRUE] @@ out
               /\ s3Objects' = ApplyPuts(s3Objects, AllPuts(out.effects))
    /\ UNCHANGED achIn

------------------------------------------------------------------------------
(* Inputs of the preprocess lambda. *)

\* what the provider holds for a site: the daily service stamps its points
\* without a zone, the instantaneous service with one
ProviderDoc(endpoint, site) ==
    DocOf(<<[kind |-> "point", value |-> site,
             dateTime |-> IF endpoint = "dv" THEN "2025-08-22T00:00:00.000"
                          ELSE "2025-08-24T10:30:00-06:00"]>>)

\* the daily service fails on the request or with a status, the
\* instantaneous service while its body is read
\* and may answer 200 with a body that is not a document
ProviderAnswers(endpoint, site) ==
    {a \in FetchAnswers({ProviderDoc(endpoint, site), GarbagePayload}) :
        IF endpoint = "dv" THEN a.kind # "readErr" /\ a.body # GarbagePayload
        ELSE a.kind \in {"readErr", "ok"}}

NoAnswer == [kind |-> "none", body |-> NilPayload]

\* the answers to a batch: one per station, fixed for a blank station id,
\* for which no request is made
BatchAnswers(endpoint, stationIDs) ==
    {as \in [1..Len(stationIDs) ->
                 {NoAnswer} \cup UNION {ProviderAnswers(endpoint, TrimSpace(id)) :
                                           id \in HandlerSites}] :
        \A i \in 1..Len(stationIDs) :
            LET id == TrimSpace(stationIDs[i])
            IN  IF id = <<>> THEN as[i] = NoAnswer
                ELSE as[i] \in ProviderAnswers(endpoint, id)}

DatasetKey == <<"processed", "dataset.csv">>

StoredRows == <<"x", COMMA, "y">>

PreprocessInputs ==
    [Bucket : {"aquawatch-data"}, StationID : TextsUpTo(HandlerSites, MaxSites),
     Parameter : {"00060"}, ProcessedKey : {DatasetKey}]
        \cup [Bucket : {""}, StationID : {<<Station03>>},
              Parameter : {"00060"}, ProcessedKey : {DatasetKey}]
        \cup [Bucket : {"aquawatch-data"}, StationID : {<<Station03>>},
              Parameter : {""}, ProcessedKey : {DatasetKey}]
        \cup [Bucket : {"aquawatch-data"}, StationID : {<<Station03>>},
              Parameter : {"00060"}, ProcessedKey : {""}]

PreprocessWorlds(stationIDs) ==
    [daily : BatchAnswers("dv", stationIDs), iv : BatchAnswers("iv", stationIDs),
     wxs : {[i \in 1..Len(stationIDs) + 1 |-> <<[err |-> FALSE, temp |-> 75]>>]},
     loadFails : BOOLEAN, saveOk : BOOLEAN]

StoreInit ==
    s3Objects \in {{}, {[bucket |-> "aquawatch-data", key |-> DatasetKey,
                  data |-> StoredRows]}}

StoreIdle == s3Objects = {}

PreprocessInit ==
    /\ preIn \in PreprocessInputs
    /\ preOut = NotCalled
    /\ StoreInit

PreprocessIdle ==
    /\ preIn = [Bucket |-> "", StationID |-> <<>>, Parameter |-> "",
                ProcessedKey |-> ""]
    /\ preOut = NotCalled

PreprocessHandlerCall ==
    /\ preOut = NotCalled
    /\ \E w \in PreprocessWorlds(preIn.StationID) :
           \E out \in {PreprocessHandler(preIn, s3Objects, w)} :
               /\ preOut' = [called |-> TRUE, w |-> w, err |-> out.err,
                             fetch |-> out.fetch, trace |-> out.trace,
                             csv |-> out.csv]
               /\ s3Objects' = out.store
    /\ UNCHANGED preIn

------------------------------------------------------------------------------
(* Inputs of the infer lambda. *)

InferBucket == <<"b">>

CsvChars == {"1", "2", COMMA, NL, SP}

FeatureRow1 == <<"7", COMMA, "1", COMMA, "4", COMMA, "8", COMMA, "5", NL>>

FeatureRow2 == <<"9", COMMA, "2", COMMA, "4", COMMA, "8", COMMA, "0", NL>>

\* the datasets found at the processed key
StoredCsvs ==
    TextsUpTo(CsvChars, MaxLen)
        \cup {FeatureRow1, FeatureRow1 \o FeatureRow2,
              FeatureRow1 \o <<NL>> \o FeatureRow2,
              FeatureRow1 \o <<"3", COMMA, "4", NL>>}

JobArtifacts == ModelPrefix(InferBucket) \o <<"/", "j", "1", "/", "m">>

InferInputs ==
    [Bucket : {InferBucket}, ProcessedKey : {DatasetKey},
     S3ModelArtifacts : {<<>>, JobArtifacts}, Sites : {<<Station03>>}]
        \cup [Bucket : {<<>>, InferBucket}, ProcessedKey : {"", DatasetKey},
              S3ModelArtifacts : {JobArtifacts}, Sites : {<<>>}]

InferEnvs == [endpoint : {"", "aquawatch-endpoint"}, model : {<<>>, <<"m">>}]

InferWorlds ==
    [loadFails : BOOLEAN, invoke : InvokeAnswers({<<"6", "6">>}),
     trackerOk : BOOLEAN, now : {1756060000}]

FullInferEnv == [endpoint |-> "aquawatch-endpoint", model |-> <<"m">>]

\* every input and environment over two datasets, and every dataset under
\* the complete environment
InferInit ==
    /\ infIn \in [input : InferInputs, env : InferEnvs]
    /\ infOut = NotCalled
    /\ trainModelTracker = {}
    /\ s3Objects \in {{}} \cup {{[bucket |-> InferBucket, key |-> DatasetKey,
                                  data |-> d]} : d \in StoredCsvs}
    /\ \/ s3Objects \subseteq {[bucket |-> InferBucket, key |-> DatasetKey,
                                 data |-> FeatureRow1 \o FeatureRow2]}
       \/ /\ infIn.env = FullInferEnv
          /\ infIn.input.Bucket # <<>>
          /\ infIn.input.ProcessedKey # ""
          /\ infIn.input.Sites # <<>>

InferIdle ==
    /\ infIn = [input |-> [Bucket |-> <<>>, ProcessedKey |-> "",
                           S3ModelArtifacts |-> <<>>, Sites |-> <<>>],
                env |-> [endpoint |-> "", model |-> <<>>]]
    /\ infOut = NotCalled
    /\ trainModelTracker = {}

InferHandlerCall ==
    /\ infOut = NotCalled
    /\ \E w \in InferWorlds :
           \E out \in {InferHandler(infIn.input, infIn.env, s3Objects, w)} :
               /\ infOut' = [called |-> TRUE, w |-> w] @@ out
               /\ trainModelTracker' = trainModelTracker \cup out.tracked
    /\ UNCHANGED <<infIn, s3Objects>>

------------------------------------------------------------------------------
(* The prediction tracker: GetPredictionTrackerItem and                     *)
(* PredictionStatusHandler.  The table is a set of items [site, status,     *)
(* createdon, updatedon] with at most one item per (site, status); times    *)
(* are milliseconds.                                                        *)

\* 15*60*1000, the age below which a prediction is in progress
inProgressWindowMs == 15 * 60 * 1000

\* [err, item]: item is Nil when the table has no item with that key
GetPredictionTrackerItem(table, site, status, getFails) ==
    IF getFails THEN [err |-> "GetItem failed", item |-> Nil]
    ELSE IF \E x \in table : x.site = site /\ x.status = status
    THEN [err |-> "",
          item |-> CHOOSE x \in table : x.site = site /\ x.status = status]
    ELSE [err |-> "", item |-> Nil]

\* the JSON body of the 200 response
StatusBody(site, status, item, now) ==
    [site |-> site,
     status |-> status,
     in_progress |-> IF item = Nil THEN FALSE
                     ELSE now - item.createdon < inProgressWindowMs,
     createdon_ms |-> IF item = Nil THEN 0 ELSE item.createdon,
     updatedon_ms |-> IF item = Nil THEN 0 ELSE item.updatedon]

\* [code, body, lookups]: lookups are the keys GetItem was called with
PredictionStatusHandler(query, table, now, getFails) ==
    IF query.site = ""
    THEN [code |-> 400, body |-> [error |-> "missing site"], lookups |-> <<>>]
    ELSE With(IF query.status = "" THEN "started" ELSE query.status,
         LAMBDA statusParam :
             With(GetPredictionTrackerItem(table, query.site, statusParam, getFails),
                  LAMBDA got :
                      IF got.err # ""
                      THEN [code |-> 502,
                            body |-> [error |-> "failed to query status"],
                            lookups |-> <<<<query.site, statusParam>>>>]
                      ELSE [code |-> 200,
                            body |-> StatusBody(query.site, statusParam,
                                                got.item, now),
                            lookups |-> <<<<query.site, statusParam>>>>]))

------------------------------------------------------------------------------
(* Inputs of PredictionStatusHandler. *)

Minute == 60 * 1000

\* the time of the request
StatusNow == 60 * Minute

\* the ages of the items of the table: from a minute in the future to 20
\* minutes, around 5 and 15 minutes to the millisecond
ItemAges ==
    {-Minute, 0, 4 * Minute, 5 * Minute - 1, 5 * Minute, 10 * Minute,
     15 * Minute - 1, 15 * Minute, 20 * Minute}

TrackerKeys == {<<"03", "started">>, <<"03", "done">>}

\* the tables: for each key, no item or an item of one of the ages
TrackerTables ==
    {{[site |-> k[1], status |-> k[2], createdon |-> StatusNow - ages[k],
       updatedon |-> StatusNow - ages[k] + 1] : k \in present} :
        present \in SUBSET TrackerKeys, ages \in [TrackerKeys -> ItemAges]}

StatusInit ==
    /\ psIn \in [site : {"", "03", "05"}, status : {"", "started", "done"}]
    /\ psOut = NotCalled
    /\ predictionTracker \in TrackerTables

StatusIdle ==
    /\ psIn = [site |-> "", status |-> ""]
    /\ psOut = NotCalled
    /\ predictionTracker = {}

PredictionStatusHandlerCall ==
    /\ psOut = NotCalled
    /\ \E getFails \in BOOLEAN :
           psOut' = [called |-> TRUE, getFails |-> getFails]
                        @@ PredictionStatusHandler(psIn, predictionTracker,
                                                   StatusNow, getFails)
    /\ UNCHANGED <<psIn, predictionTracker>>

------------------------------------------------------------------------------
(* internal/alerts.go: SubscribeAlertsEmail, and SubscribeAlertsHandler.    *)
(* A subscription of the topic is [Endpoint, Protocol, SubscriptionArn],    *)
(* each a text or NilText (a nil pointer); the listing answers in pages.    *)

NilText == <<"nil">>

LowerLetters ==
    <<"a", "b", "c", "d", "e", "f", "g", "h", "i", "j", "k", "l", "m",
      "n", "o", "p", "q", "r", "s", "t", "u", "v", "w", "x", "y", "z">>

UpperLetters ==
    <<"A", "B", "C", "D", "E", "F", "G", "H", "I", "J", "K", "L", "M",
      "N", "O", "P", "Q", "R", "S", "T", "U", "V", "W", "X", "Y", "Z">>

Letters == {LowerLetters[i] : i \in 1..26} \cup {UpperLetters[i] : i \in 1..26}

\* the simple case folding of one character
Fold(c) ==
    IF \E i \in 1..26 : UpperLetters[i] = c
    THEN LowerLetters[CHOOSE i \in 1..26 : UpperLetters[i] = c]
    ELSE c

\* strings.EqualFold
EqualFold(s, t) ==
    /\ Len(s) = Len(t)
    /\ \A i \in 1..Len(s) : Fold(s[i]) = Fold(t[i])

\* ^[A-Za-z0-9._%+-]+@[A-Za-z0-9.-]+\.[A-Za-z]{2,}$
MatchEmail(s) ==
    \E at \in 2..Len(s) : \E dot \in (at + 2)..(Len(s) - 2) :
        /\ s[at] = "@"
        /\ \A i \in 1..(at - 1) :
               s[i] \in Letters \cup DigitChars \cup {".", "_", "%", "+", "-"}
        /\ \A i \in (at + 1)..(dot - 1) :
               s[i] \in Letters \cup DigitChars \cup {".", "-"}
        /\ s[dot] = "."
        /\ \A i \in (dot + 1)..Len(s) : s[i] \in Letters

\* a variant of the test that a subscription pending confirmation passes too
ConfirmedOrPendingFor(sub, email) ==
    /\ sub.Endpoint # NilText
    /\ EqualFold(sub.Endpoint, email)
    /\ sub.Protocol # NilText
    /\ sub.Protocol = <<"email">>
    /\ sub.SubscriptionArn # NilText
    /\ sub.SubscriptionArn # <<>>

\* the test of lines 46-47 on one subscription
ConfirmedFor(sub, email) ==
    /\ sub.Endpoint # NilText
    /\ EqualFold(sub.Endpoint, email)
    /\ sub.Protocol # NilText
    /\ sub.Protocol = <<"email">>
    /\ sub.SubscriptionArn # NilText
    /\ sub.SubscriptionArn # <<>>
    /\ sub.SubscriptionArn # <<"PendingConfirmation">>

\* the loop over the pages from page i on: "found", "error" or "none", with
\* the number of pages read
RECURSIVE ScanPages(_, _, _, _)
ScanPages(pages, email, failAt, i) ==
    IF i > Len(pages) THEN [verdict |-> "none", read |-> i - 1]
    ELSE IF failAt = i THEN [verdict |-> "error", read |-> i]
    ELSE IF \E k \in 1..Len(pages[i]) : ConfirmedFor(pages[i][k], email)
    THEN [verdict |-> "found", read |-> i]
    ELSE ScanPages(pages, email, failAt, i + 1)

ErrAlreadySubscribed == "email already subscribed"

\* [arn, err, calls, subscribed]: calls are the SNS calls made, subscribed
\* the subscriptions the Subscribe call added to the topic.  w is
\* [createOk, failAt, subscribeOk, arn]: whether CreateTopic answers, the page
\* at which the listing fails (0: none), whether Subscribe answers and the
\* SubscriptionArn it answers with
SubscribeAlertsEmail(email, pages, w) ==
    IF ~w.createOk
    THEN [arn |-> <<>>, err |-> "CreateTopic failed", calls |-> <<"CreateTopic">>,
          subscribed |-> <<>>]
    ELSE With(ScanPages(pages, email, w.failAt, 1), LAMBDA scan :
        IF scan.verdict = "error"
        THEN [arn |-> <<>>, err |-> "list failed",
              calls |-> <<"CreateTopic">> \o [i \in 1..scan.read |-> "ListPage"],
              subscribed |-> <<>>]
        ELSE IF scan.verdict = "found"
        THEN [arn |-> <<>>, err |-> ErrAlreadySubscribed,
              calls |-> <<"CreateTopic">> \o [i \in 1..scan.read |-> "ListPage"],
              subscribed |-> <<>>]
        ELSE IF ~w.subscribeOk
        THEN [arn |-> <<>>, err |-> "Subscribe failed",
              calls |-> <<"CreateTopic">> \o [i \in 1..scan.read |-> "ListPage"]
                            \o <<"Subscribe">>,
              subscribed |-> <<>>]
        ELSE [arn |-> IF w.arn = NilText THEN <<>> ELSE w.arn,
              err |-> "",
              calls |-> <<"CreateTopic">> \o [i \in 1..scan.read |-> "ListPage"]
                            \o <<"Subscribe">>,
              subscribed |-> <<[Endpoint |-> email, Protocol |-> <<"email">>,
                                SubscriptionArn |-> <<"PendingConfirmation">>]>>])

\* a response written before SubscribeAlertsEmail is called
NotSubscribing(code) ==
    [code |-> code, arn |-> <<>>, err |-> "", calls |-> <<>>, subscribed |-> <<>>]

\* [code, arn, err, calls, subscribed]: the status written, and what
\* SubscribeAlertsEmail returned and did
SubscribeAlertsHandler(req, pages, w) ==
    IF req.method # "POST" THEN NotSubscribing(405)
    ELSE IF ~req.bodyOk THEN NotSubscribing(400)
    ELSE IF ~MatchEmail(TrimSpace(req.email)) THEN NotSubscribing(400)
    ELSE With(SubscribeAlertsEmail(TrimSpace(req.email), pages, w), LAMBDA out :
             [code |-> IF out.err = "" THEN 200
                       ELSE IF out.err = ErrAlreadySubscribed THEN 409
                       ELSE 502]
                 @@ out)

------------------------------------------------------------------------------
(* Inputs of SubscribeAlertsHandler. *)

EmailA == <<"a", "@", "x", ".", "i", "o">>

EmailUpperA == <<"A", "@", "X", ".", "i", "o">>

EmailB == <<"b", "@", "x", ".", "i", "o">>

TopicArn == <<"arn", ":", "1">>

\* the subscriptions a topic may hold
TopicSubscriptions ==
    {[Endpoint |-> EmailA, Protocol |-> <<"email">>, SubscriptionArn |-> TopicArn],
     [Endpoint |-> EmailUpperA, Protocol |-> <<"email">>,
      SubscriptionArn |-> TopicArn],
     [Endpoint |-> EmailA, Protocol |-> <<"email">>,
      SubscriptionArn |-> <<"PendingConfirmation">>],
     [Endpoint |-> EmailA, Protocol |-> <<"sms">>, SubscriptionArn |-> TopicArn],
     [Endpoint |-> EmailB, Protocol |-> <<"email">>, SubscriptionArn |-> TopicArn],
     [Endpoint |-> NilText, Protocol |-> <<"email">>, SubscriptionArn |-> NilText]}

\* the subscriptions listed on one page
PageSize == 1

\* the pages of the listing of a topic
PagesOf(subs) ==
    [p \in 1..((Len(subs) + PageSize - 1) \div PageSize) |->
        SubSeq(subs, (p - 1) * PageSize + 1,
               IF p * PageSize < Len(subs) THEN p * PageSize ELSE Len(subs))]

SubscribeRequests ==
    [method : {"POST"}, bodyOk : {TRUE},
     email : {EmailA, EmailUpperA, <<SP>> \o EmailA \o <<SP>>, EmailB,
              <<"a", "@", "x">>, <<>>}]
        \cup [method : {"GET"}, bodyOk : {TRUE}, email : {EmailA}]
        \cup [method : {"POST"}, bodyOk : {FALSE}, email : {<<>>}]

SubscribeWorlds ==
    [createOk : BOOLEAN, failAt : 0..MaxSubs, subscribeOk : BOOLEAN,
     arn : {NilText, <<"PendingConfirmation">>}]

SubscribeInit ==
    /\ subIn \in SubscribeRequests
    /\ subOut = NotCalled
    /\ snsSubscriptions \in TextsUpTo(TopicSubscriptions, MaxSubs)

SubscribeIdle ==
    /\ subIn = [method |-> "GET", bodyOk |-> FALSE, email |-> <<>>]
    /\ subOut = NotCalled
    /\ snsSubscriptions = <<>>

SubscribeAlertsHandlerCall ==
    /\ subOut = NotCalled
    /\ \E w \in SubscribeWorlds :
           \E out \in {SubscribeAlertsHandler(subIn, PagesOf(snsSubscriptions), w)} :
               /\ subOut' = [called |-> TRUE, w |-> w] @@ out
               /\ snsSubscriptions' = snsSubscriptions \o out.subscribed
    /\ UNCHANGED subIn

------------------------------------------------------------------------------
(* Inputs of PreprocessDataCSVBatch. *)

\* the most payloads of a batch
MaxDocs == 3

\* the payloads of a batch: nil, documents of one or two rows, a document
\* without a timed point, a document of two series, and bytes that do not
\* decode
BatchDocs ==
    {NilPayload, DocOf(<<PtGood>>), DocOf(<<PtGood, PtPartial>>), DocOf(<<PtNoZone>>),
     DocOf(<<PtEarly, SeriesBreak, PtGood>>), GarbagePayload}

\* the weather answers for the series of every payload: all lookups answer,
\* or all fail
BatchWeather(rawPayloads, ok) ==
    [i \in 1..Len(rawPayloads) |->
        [k \in 1..NumSeries(rawPayloads[i]) |->
            IF ok THEN [err |-> FALSE, temp |-> 75] ELSE [err |-> TRUE, temp |-> 0]]]

BatchInit ==
    /\ batchIn \in TextsUpTo(BatchDocs, MaxDocs)
    /\ batchOut = NotCalled

BatchIdle ==
    /\ batchIn = <<>>
    /\ batchOut = NotCalled

PreprocessDataCSVBatchCall ==
    /\ batchOut = NotCalled
    /\ \E ok \in BOOLEAN :
           \E wxs \in {BatchWeather(batchIn, ok)} :
               batchOut' = [called |-> TRUE, wxs |-> wxs]
                               @@ PreprocessDataCSVBatch(batchIn, wxs)
    /\ UNCHANGED batchIn

------------------------------------------------------------------------------
(* The batch fetches, one provider request at a time (GetWaterDataBatch and *)
(* GetWaterDailyDataLast30DaysBatch).  Each request is http.Get, the        *)
(* default client, whose Timeout is zero: the call returns when the         *)
(* provider answers or the connection fails, and not before.  An answer of  *)
(* kind "silent" is a provider that accepts the request and never answers.  *)

GetStations == {BlankStation, Station03, Station05}

GetAnswers ==
    {[kind |-> "ok", body |-> ObsDoc(<<"1">>)],
     [kind |-> "status", body |-> NilPayload],
     [kind |-> "reqErr", body |-> NilPayload],
     [kind |-> "readErr", body |-> NilPayload],
     [kind |-> "silent", body |-> NilPayload]}

GetInit ==
    /\ getIn \in {in \in [endpoint : {"iv", "dv"},
                          stationIDs : TextsUpTo(GetStations, MaxSites),
                          answers : TextsUpTo(GetAnswers, MaxSites)] :
                     Len(in.answers) = Len(in.stationIDs)}
    /\ getRun = [pc |-> "loop", i |-> 1, results |-> <<>>, err |-> ""]

GetIdle ==
    /\ getIn = [endpoint |-> "iv", stationIDs |-> <<>>, answers |-> <<>>]
    /\ getRun = [pc |-> "returned", i |-> 1, results |-> <<>>, err |-> ""]

\* the head of the loop: a blank station id gets a nil payload, any other
\* one a request (http.Get is entered)
GetStation ==
    /\ getRun.pc = "loop"
    /\ getRun.i <= Len(getIn.stationIDs)
    /\ getRun' = IF TrimSpace(getIn.stationIDs[getRun.i]) = <<>>
                 THEN [getRun EXCEPT !.i = @ + 1,
                                     !.results = Append(@, NilPayload)]
                 ELSE [getRun EXCEPT !.pc = "awaiting"]
    /\ UNCHANGED <<getIn, ppVars, encVars, pidVars, achVars, preVars, s3Objects, infVars, accVars, psVars, subVars, batchVars, lraVars, sesVars, authVars>>

\* http.Get returns: the request failed, the status is not 200, the body
\* cannot be read, or the payload is appended
GetAnswer ==
    /\ getRun.pc = "awaiting"
    /\ getIn.answers[getRun.i].kind # "silent"
    /\ getRun' = IF getIn.answers[getRun.i].kind = "reqErr"
                 THEN [getRun EXCEPT !.pc = "returned", !.results = <<>>,
                                     !.err = "API request failed"]
                 ELSE IF getIn.answers[getRun.i].kind = "status"
                 THEN [getRun EXCEPT !.pc = "returned", !.results = <<>>,
                                     !.err = "API non-OK status"]
                 ELSE IF getIn.answers[getRun.i].kind = "readErr"
                 THEN [getRun EXCEPT !.pc = "returned", !.results = <<>>,
                                     !.err = "reading HTTP response failed"]
                 ELSE [getRun EXCEPT !.pc = "loop", !.i = @ + 1,
                                     !.results = Append(@, getIn.answers[getRun.i].body)]
    /\ UNCHANGED <<getIn, ppVars, encVars, pidVars, achVars, preVars, s3Objects, infVars, accVars, psVars, subVars, batchVars, lraVars, sesVars, authVars>>

\* the loop is over: return results, nil
GetReturn ==
    /\ getRun.pc = "loop"
    /\ getRun.i > Len(getIn.stationIDs)
    /\ getRun' = [getRun EXCEPT !.pc = "returned"]
    /\ UNCHANGED <<getIn, ppVars, encVars, pidVars, achVars, preVars, s3Objects, infVars, accVars, psVars, subVars, batchVars, lraVars, sesVars, authVars>>

------------------------------------------------------------------------------
(* internal/ddb.go: ListRecentAlerts.  createdon is the key of the alert    *)
(* table, so an alert is its creation time and a table is a sequence of     *)
(* distinct times, in the order a Scan walks them (the order of the hashed  *)
(* keys, which is not the order of the times).  A request evaluates at most *)
(* Limit items, and at most w.pageCap (the size cap of a page); the world   *)
(* w also says whether a page cut at the very end of the table still        *)
(* carries a LastEvaluatedKey (keyAtEnd), and which request fails (failAt,  *)
(* 0 for none).  A key is the position of the last evaluated item, 0 for    *)
(* no key.                                                                  *)

MaxAlerts == 3

defaultLimit == 100

Min(a, b) == IF a < b THEN a ELSE b

\* lines 114-120: one Scan request from the position after start
ScanPage(table, start, lim, since, w) ==
    With(Min(Len(table), start + Min(lim, w.pageCap)), LAMBDA end :
        [items |-> SelectSeq(SubSeq(table, start + 1, end),
                             LAMBDA createdon : createdon >= since),
         lastKey |-> IF end < Len(table) THEN end
                     ELSE IF end - start = lim /\ w.keyAtEnd THEN end
                     ELSE 0])

\* lines 113-133: the loop over the pages; scans are the requests made,
\* [start, limit, returned, lastKey]
RECURSIVE ScanLoop(_, _, _, _, _, _, _)
ScanLoop(table, since, limit, w, items, lastKey, scans) ==
    IF w.failAt = Len(scans) + 1
    THEN [err |-> "scan failed", items |-> <<>>, scans |-> scans]
    ELSE With(ScanPage(table, lastKey, limit - Len(items), since, w),
         LAMBDA out :
             With(Append(scans, [start |-> lastKey, limit |-> limit - Len(items),
                                 returned |-> Len(out.items),
                                 lastKey |-> out.lastKey]),
             LAMBDA asked :
                 IF Len(items \o out.items) >= limit \/ out.lastKey = 0
                 THEN [err |-> "", items |-> items \o out.items, scans |-> asked]
                 ELSE ScanLoop(table, since, limit, w, items \o out.items,
                               out.lastKey, asked)))

\* lines 97-135: the variant that scans the table
ListRecentAlertsScan(sinceEpochMs, limit, table, w) ==
    ScanLoop(table, sinceEpochMs, IF limit <= 0 THEN defaultLimit ELSE limit, w,
             <<>>, 0, <<>>)

\* seq with v put before the first element smaller than v
RECURSIVE InsertDesc(_, _)
InsertDesc(seq, v) ==
    IF seq = <<>> THEN <<v>>
    ELSE IF v > Head(seq) THEN <<v>> \o seq
    ELSE <<Head(seq)>> \o InsertDesc(Tail(seq), v)

\* sort.Slice with items[i].CreatedOnMs > items[j].CreatedOnMs, on distinct
\* times
RECURSIVE SortDesc(_)
SortDesc(seq) ==
    IF seq = <<>> THEN <<>> ELSE InsertDesc(SortDesc(Tail(seq)), Head(seq))

\* lines 253-260: the Query on gsi_recent, createdon >= :since, backward
QueryPage(table, lim, since, w) ==
    With(SortDesc(SelectSeq(table, LAMBDA createdon : createdon >= since)),
         LAMBDA matching : SubSeq(matching, 1,
                                  Min(Len(matching), Min(lim, w.pageCap))))

\* a query variant that returns the page as the index walked it forward
ListRecentAlertsQueryUnsorted(sinceEpochMs, limit, table, w) ==
    IF w.failAt = 1
    THEN [err |-> "query failed", items |-> <<>>, scans |-> <<>>]
    ELSE LET lim == IF limit <= 0 THEN defaultLimit ELSE limit
         IN  With(QueryPage(table, lim, sinceEpochMs, w), LAMBDA page :
                 [err |-> "",
                  items |-> [k \in 1..Len(page) |-> page[Len(page) + 1 - k]],
                  scans |-> <<[start |-> 0, limit |-> lim, returned |-> Len(page),
                               lastKey |-> 0]>>])

\* lines 235-271: the variant that queries the index, one request
ListRecentAlertsQuery(sinceEpochMs, limit, table, w) ==
    IF w.failAt = 1
    THEN [err |-> "query failed", items |-> <<>>, scans |-> <<>>]
    ELSE LET lim == IF limit <= 0 THEN defaultLimit ELSE limit
         IN  With(QueryPage(table, lim, sinceEpochMs, w), LAMBDA page :
                 [err |-> "", items |-> SortDesc(page),
                  scans |-> <<[start |-> 0, limit |-> lim, returned |-> Len(page),
                               lastKey |-> 0]>>])

\* tables of distinct creation times, in every scan order
AlertTables ==
    {t \in TextsUpTo(1..MaxAlerts, MaxAlerts) :
        \A i, j \in 1..Len(t) : i # j => t[i] # t[j]}

AlertWorlds ==
    [pageCap : 1..MaxAlerts, keyAtEnd : BOOLEAN, failAt : 0..2]

ListInit ==
    /\ lraIn \in [variant : {"scan", "query"}, sinceEpochMs : 0..MaxAlerts,
                  limit : -1..MaxAlerts, table : AlertTables]
    /\ lraOut = NotCalled

ListIdle ==
    /\ lraIn = [variant |-> "query", sinceEpochMs |-> 0, limit |-> 0,
                table |-> <<>>]
    /\ lraOut = NotCalled

ListRecentAlertsScanCall ==
    /\ lraOut = NotCalled
    /\ lraIn.variant = "scan"
    /\ \E w \in AlertWorlds :
           \E out \in {ListRecentAlertsScan(lraIn.sinceEpochMs, lraIn.limit,
                                            lraIn.table, w)} :
               lraOut' = [called |-> TRUE, w |-> w] @@ out
    /\ UNCHANGED <<lraIn, ppVars, encVars, pidVars, achVars, preVars, s3Objects, infVars, accVars, psVars, subVars, batchVars, getVars, sesVars, authVars>>

ListRecentAlertsQueryCall ==
    /\ lraOut = NotCalled
    /\ lraIn.variant = "query"
    /\ \E w \in AlertWorlds :
           \E out \in {ListRecentAlertsQuery(lraIn.sinceEpochMs, lraIn.limit,
                                             lraIn.table, w)} :
               lraOut' = [called |-> TRUE, w |-> w] @@ out
    /\ UNCHANGED <<lraIn, ppVars, encVars, pidVars, achVars, preVars, s3Objects, infVars, accVars, psVars, subVars, batchVars, getVars, sesVars, authVars>>

------------------------------------------------------------------------------
(* internal/session.go.  A token is [enc, text]: base64.RawURLEncoding of   *)
(* text when enc is "b64url", a string that does not decode otherwise.      *)
(* HMAC-SHA256 under a secret is a keyed injective function of the payload; *)
(* its encoded output has no '|'.                                           *)

MaxTime == 3

BAR == "|"

\* lines 22-24: the encoded signature of payload under secret
Hmac(secret, payload) ==
    <<"h">> \o secret \o <<"_">>
        \o [i \in 1..Len(payload) |-> IF payload[i] = BAR THEN "_" ELSE payload[i]]

EncodeToString(raw) == [enc |-> "b64url", text |-> raw]

DecodeString(token) ==
    IF token.enc = "b64url" THEN [err |-> FALSE, raw |-> token.text]
    ELSE [err |-> TRUE, raw |-> <<>>]

\* lines 63-79: the loop over s from position i
RECURSIVE SplitLoop(_, _, _, _, _, _, _)
SplitLoop(s, sep, n, i, start, count, res) ==
    IF i > Len(s) THEN Append(res, SubSeq(s, start, Len(s)))
    ELSE IF s[i] = sep
    THEN IF count + 1 = n - 1
         THEN Append(Append(res, SubSeq(s, start, i - 1)), SubSeq(s, i + 1, Len(s)))
         ELSE SplitLoop(s, sep, n, i + 1, i + 1, count + 1,
                        Append(res, SubSeq(s, start, i - 1)))
    ELSE SplitLoop(s, sep, n, i + 1, start, count, res)

bytesSplitN(s, sep, n) == SplitLoop(s, sep, n, 1, 1, 0, <<>>)

\* fmt.Sscanf(text, "%d", &exp): leading blanks are skipped, then an
\* optional sign and the digits that follow; what comes after them is left
\* unread; no digit is an error
ScanInt(text) ==
    With(TrimLeft(text), LAMBDA t :
        With(IF t # <<>> /\ Head(t) \in {"+", "-"} THEN Tail(t) ELSE t,
        LAMBDA unsigned :
            With(TakeWhile(unsigned, DigitChars), LAMBDA ds :
                IF ds = <<>> THEN [err |-> TRUE, v |-> 0]
                ELSE [err |-> FALSE,
                      v |-> IF Head(t) = "-" THEN -DigitsToNat(ds)
                            ELSE DigitsToNat(ds)])))

\* lines 15-27
MintSessionToken(phoneE164, ttl, secret, now) ==
    IF secret = <<>>
    THEN [err |-> "SESSION_SECRET not configured", token |-> EncodeToString(<<>>)]
    ELSE With(phoneE164 \o <<BAR>> \o FormatInt(now + ttl), LAMBDA payload :
             [err |-> "",
              token |-> EncodeToString(payload \o <<BAR>> \o Hmac(secret, payload))])

\* a validation that rejects the token from its expiry second on
ValidateSessionTokenBeforeExpiry(token, secret, now) ==
    IF secret = <<>> THEN [err |-> "SESSION_SECRET not configured", phone |-> <<>>]
    ELSE IF DecodeString(token).err
    THEN [err |-> "invalid token encoding", phone |-> <<>>]
    ELSE With(bytesSplitN(DecodeString(token).raw, BAR, 3), LAMBDA parts :
        IF Len(parts) # 3 THEN [err |-> "invalid token format", phone |-> <<>>]
        ELSE IF ScanInt(parts[2]).err \/ now >= ScanInt(parts[2]).v
        THEN [err |-> "token expired", phone |-> <<>>]
        ELSE IF Hmac(secret, parts[1] \o <<BAR>> \o parts[2]) # parts[3]
        THEN [err |-> "invalid token signature", phone |-> <<>>]
        ELSE [err |-> "", phone |-> parts[1]])

\* lines 31-60
ValidateSessionToken(token, secret, now) ==
    IF secret = <<>> THEN [err |-> "SESSION_SECRET not configured", phone |-> <<>>]
    ELSE IF DecodeString(token).err
    THEN [err |-> "invalid token encoding", phone |-> <<>>]
    ELSE With(bytesSplitN(DecodeString(token).raw, BAR, 3), LAMBDA parts :
        IF Len(parts) # 3 THEN [err |-> "invalid token format", phone |-> <<>>]
        ELSE IF ScanInt(parts[2]).err \/ now > ScanInt(parts[2]).v
        THEN [err |-> "token expired", phone |-> <<>>]
        ELSE IF Hmac(secret, parts[1] \o <<BAR>> \o parts[2]) # parts[3]
        THEN [err |-> "invalid token signature", phone |-> <<>>]
        ELSE [err |-> "", phone |-> parts[1]])

------------------------------------------------------------------------------
(* Inputs of the session tokens. *)

SecretK == <<"k">>
SecretQ == <<"q">>

PhoneA == <<"+", "1">>
PhoneB == <<"+", "2">>
PhoneBar == <<"+", BAR, "1">>

SessionPhones == {PhoneA, PhoneB, PhoneBar, <<>>}

\* the tokens someone who saw the minted token and does not hold the secret
\* can present: the token itself, the token with its phone, its expiry or
\* its signature replaced, a token signed under another secret, a token of
\* two parts, and a string that does not decode
Presented(minted) ==
    With(IF minted.err = "" THEN bytesSplitN(minted.token.text, BAR, 3)
         ELSE <<PhoneA, <<"2">>, Hmac(SecretQ, PhoneA \o <<BAR, "2">>)>>,
    LAMBDA parts :
        {EncodeToString(Join(<<phone, exp,
                               CASE sig = "kept" -> parts[Len(parts)]
                                 [] sig = "other" ->
                                        Hmac(SecretQ, phone \o <<BAR>> \o exp)
                                 [] sig = "junk" -> <<"z">>>>, BAR)) :
            phone \in {parts[1], PhoneB},
            exp \in {parts[2], <<SP>> \o parts[2], parts[2] \o <<"x">>,
                     FormatInt(MaxTime + 2), <<>>},
            sig \in {"kept", "other", "junk"}}
            \cup {EncodeToString(Join(<<parts[1], parts[2]>>, BAR)),
                  [enc |-> "other", text |-> <<>>]})

NotMinted == [called |-> FALSE]

SessionInit ==
    /\ sesEnv \in {<<>>, SecretK}
    /\ sesNow \in 0..1
    /\ sesMinted = NotMinted
    /\ sesOut = NotCalled

SessionIdle ==
    /\ sesEnv = <<>>
    /\ sesNow = 0
    /\ sesMinted = NotMinted
    /\ sesOut = NotCalled

MintSessionTokenCall ==
    /\ sesMinted = NotMinted
    /\ \E phone \in SessionPhones, ttl \in -1..2 :
           sesMinted' = [called |-> TRUE, phone |-> phone, exp |-> sesNow + ttl]
                            @@ MintSessionToken(phone, ttl, sesEnv, sesNow)
    /\ UNCHANGED <<sesEnv, sesNow, sesOut, ppVars, encVars, pidVars, achVars, preVars, s3Objects, infVars, accVars, psVars, subVars, batchVars, getVars, lraVars, authVars>>

ValidateSessionTokenCall ==
    /\ sesMinted # NotMinted
    /\ \E token \in Presented(sesMinted) :
           sesOut' = [called |-> TRUE, token |-> token, at |-> sesNow]
                         @@ ValidateSessionToken(token, sesEnv, sesNow)
    /\ UNCHANGED <<sesEnv, sesNow, sesMinted, ppVars, encVars, pidVars, achVars, preVars, s3Objects, infVars, accVars, psVars, subVars, batchVars, getVars, lraVars, authVars>>

\* a second passes
SessionTick ==
    /\ sesNow < MaxTime
    /\ sesNow' = sesNow + 1
    /\ sesOut' = NotCalled
    /\ UNCHANGED <<sesEnv, sesMinted, ppVars, encVars, pidVars, achVars, preVars, s3Objects, infVars, accVars, psVars, subVars, batchVars, getVars, lraVars, authVars>>

------------------------------------------------------------------------------
(* cmd/api/main.go: the middleware chain withCORS(authenticated).  A        *)
(* request is [method, path, token, reqID, code], the three headers being   *)
(* X-Session-Token, X-Verify-Request-Id and X-Verify-Code; verify is what   *)
(* VerifyCheck answers: "ok", "rejected" (false or an error text of the     *)
(* provider) or "error" (the call failed).  The result is [status,          *)
(* dispatched, verifyCalls]: dispatched when mux.ServeHTTP ran, status 0    *)
(* when the chain itself wrote none.                                        *)

strings_ToLower(s) == [i \in 1..Len(s) |-> Fold(s[i])]

\* lines 52-59: VONAGE_VERIFY_ENABLED
UseVonage(flag) ==
    ~(flag # <<>> /\ strings_ToLower(flag) \in {<<"f", "a", "l", "s", "e">>, <<"0">>,
                                               <<"n", "o">>, <<"o", "f", "f">>})

NoToken == EncodeToString(<<>>)

Dispatched == [status |-> 0, dispatched |-> TRUE, verifyCalls |-> 0]

\* a gate that answers 401 to a session token that does not validate
authenticatedTokenFinal(req, flag, secret, now, verify) ==
    IF req.method = "OPTIONS" \/ req.path = "/healthz" THEN Dispatched
    ELSE IF req.path = "/sms/send" \/ req.path = "/sms/verify" THEN Dispatched
    ELSE IF req.token # NoToken
    THEN IF ValidateSessionToken(req.token, secret, now).err = "" THEN Dispatched
         ELSE [status |-> 401, dispatched |-> FALSE, verifyCalls |-> 0]
    ELSE IF UseVonage(flag)
    THEN IF req.reqID = "" \/ req.code = ""
         THEN [status |-> 401, dispatched |-> FALSE, verifyCalls |-> 0]
         ELSE IF verify # "ok"
         THEN [status |-> 401, dispatched |-> FALSE, verifyCalls |-> 1]
         ELSE [status |-> 0, dispatched |-> TRUE, verifyCalls |-> 1]
    ELSE Dispatched

\* lines 60-95
authenticated(req, flag, secret, now, verify) ==
    IF req.method = "OPTIONS" \/ req.path = "/healthz" THEN Dispatched
    ELSE IF req.path = "/sms/send" \/ req.path = "/sms/verify" THEN Dispatched
    ELSE IF req.token # NoToken
             /\ ValidateSessionToken(req.token, secret, now).err = ""
    THEN Dispatched
    ELSE IF UseVonage(flag)
    THEN IF req.reqID = "" \/ req.code = ""
         THEN [status |-> 401, dispatched |-> FALSE, verifyCalls |-> 0]
         ELSE IF verify # "ok"
         THEN [status |-> 401, dispatched |-> FALSE, verifyCalls |-> 1]
         ELSE [status |-> 0, dispatched |-> TRUE, verifyCalls |-> 1]
    ELSE Dispatched

\* lines 14-32: a preflight request is answered 204 and goes no further
withCORS(req, flag, secret, now, verify) ==
    IF req.method = "OPTIONS"
    THEN [status |-> 204, dispatched |-> FALSE, verifyCalls |-> 0]
    ELSE authenticated(req, flag, secret, now, verify)

------------------------------------------------------------------------------
(* Inputs of the middleware chain. *)

VonageFlags ==
    {<<>>, <<"f", "a", "l", "s", "e">>, <<"O", "f", "f">>, <<"0">>, <<"n", "o">>,
     <<"t", "r", "u", "e">>, <<"1">>}

AuthPaths ==
    {"/healthz", "/sms/send", "/sms/verify", "/anomaly/check", "/alerts",
     "/healthz/"}

\* no token, a token that is valid at second 1, one that expired at second
\* 0, one signed under another secret, and a string that does not decode
AuthTokens ==
    {NoToken,
     MintSessionToken(PhoneA, 2, SecretK, 0).token,
     MintSessionToken(PhoneA, 0, SecretK, 0).token,
     MintSessionToken(PhoneA, 2, SecretQ, 0).token,
     [enc |-> "other", text |-> <<>>]}

AuthRequests ==
    [method : {"GET", "POST", "OPTIONS"}, path : AuthPaths,
     token : AuthTokens, reqID : {"", "r1"}, code : {"", "1234"}]

AuthInit ==
    /\ authIn \in [flag : VonageFlags, secret : {<<>>, SecretK}, now : {1},
                    req : AuthRequests]
    /\ authOut = NotCalled

AuthIdle ==
    /\ authIn = [flag |-> <<>>, secret |-> <<>>, now |-> 0,
                 req |-> [method |-> "OPTIONS", path |-> "/healthz",
                          token |-> NoToken, reqID |-> "", code |-> ""]]
    /\ authOut = NotCalled

ServeHTTP ==
    /\ authOut = NotCalled
    /\ \E verify \in {"ok", "rejected", "error"} :
           authOut' = [called |-> TRUE, verify |-> verify]
                          @@ withCORS(authIn.req, authIn.flag, authIn.secret,
                                      authIn.now, verify)
    /\ UNCHANGED <<authIn, ppVars, encVars, pidVars, achVars, preVars, s3Objects, infVars, accVars, psVars, subVars, batchVars, getVars, lraVars, sesVars>>

------------------------------------------------------------------------------
(* Accumulate operations on one key: lines 88-102 of the preprocess handler *)
(* run by two invocations of the lambda.  An invocation first loads the     *)
(* stored content (AccumulateLoad, once its new rows are encoded), later    *)
(* saves the accumulated content (AccumulateSave); other invocations may    *)
(* run between the two calls.                                               *)

Writers == {1, 2}

\* the number of accumulate operations that are started
MaxOps == 2

RowsA == <<"a", COMMA, "b", NL>>

RowsB == <<"c", COMMA, "d", NL>>

\* the rows an invocation has encoded; the first one may have none
NewRows(writer) == IF writer = 1 THEN {RowsA, <<>>} ELSE {RowsB}

AccBucket == "aquawatch-data"

\* the content stored at the dataset key, empty when there is no object
StoredAt(store) ==
    LET found == {x \in store : x.bucket = AccBucket /\ x.key = DatasetKey}
    IN  IF found = {} THEN <<>> ELSE (CHOOSE x \in found : TRUE).data

IdleWriter == [pc |-> "idle", csvBytes |-> <<>>,
               existing |-> [err |-> "", data |-> <<>>]]

AccumulateInit ==
    /\ accWriter = [w \in Writers |-> IdleWriter]
    /\ accHistory = <<>>
    /\ s3Objects \in {{}} \cup {{[bucket |-> AccBucket, key |-> DatasetKey,
                                  data |-> d]} :
                                d \in {StoredRows, Append(StoredRows, NL), <<>>}}

AccumulateIdle ==
    /\ accWriter = [w \in Writers |-> IdleWriter]
    /\ accHistory = <<>>

Started == Len(SelectSeq(accHistory, LAMBDA e : e.op = "load"))

\* lines 83-89: the rows are encoded and the stored content is loaded
AccumulateLoad(writer) ==
    /\ accWriter[writer].pc = "idle"
    /\ Started < MaxOps
    /\ \E rows \in NewRows(writer), loadFails \in BOOLEAN :
           \E existing \in {LoadFromS3(s3Objects, AccBucket, DatasetKey, loadFails)} :
               /\ accWriter' = [accWriter EXCEPT ![writer] =
                                   [pc |-> "loaded", csvBytes |-> rows,
                                    existing |-> existing]]
               /\ accHistory' = Append(accHistory,
                                    [op |-> "load", writer |-> writer,
                                     ok |-> existing.err = "", new |-> rows,
                                     existing |-> existing,
                                     stored |-> StoredAt(s3Objects)])
    /\ UNCHANGED <<s3Objects, ppVars, encVars, pidVars, achVars, preVars, infVars,
                 psVars, subVars, batchVars, getVars, lraVars, sesVars, authVars>>

\* a variant of the save that appends to the content stored at its time
AccumulateSaveOnStored(writer) ==
    /\ accWriter[writer].pc = "loaded"
    /\ \E saveOk \in BOOLEAN :
           \E csvBytes \in {Accumulate([err |-> accWriter[writer].existing.err,
                                        data |-> StoredAt(s3Objects)],
                                       accWriter[writer].csvBytes)} :
               /\ s3Objects' = ApplyPuts(s3Objects,
                                   SaveToS3WithKey(csvBytes, AccBucket, DatasetKey,
                                                   saveOk))
               /\ accHistory' = Append(accHistory,
                                    [op |-> "save", writer |-> writer,
                                     ok |-> saveOk,
                                     new |-> accWriter[writer].csvBytes,
                                     existing |-> accWriter[writer].existing,
                                     stored |-> csvBytes])
    /\ accWriter' = [accWriter EXCEPT ![writer] = IdleWriter]
    /\ UNCHANGED <<ppVars, encVars, pidVars, achVars, preVars, infVars,
                 psVars, subVars, batchVars, getVars, lraVars, sesVars, authVars>>

\* lines 90-102: the content is accumulated and saved
AccumulateSave(writer) ==
    /\ accWriter[writer].pc = "loaded"
    /\ \E saveOk \in BOOLEAN :
           \E csvBytes \in {Accumulate(accWriter[writer].existing,
                                       accWriter[writer].csvBytes)} :
               /\ s3Objects' = ApplyPuts(s3Objects,
                                   SaveToS3WithKey(csvBytes, AccBucket, DatasetKey,
                                                   saveOk))
               /\ accHistory' = Append(accHistory,
                                    [op |-> "save", writer |-> writer,
                                     ok |-> saveOk,
                                     new |-> accWriter[writer].csvBytes,
                                     existing |-> accWriter[writer].existing,
                                     stored |-> csvBytes])
    /\ accWriter' = [accWriter EXCEPT ![writer] = IdleWriter]
    /\ UNCHANGED <<ppVars, encVars, pidVars, achVars, preVars, infVars,
                 psVars, subVars, batchVars, getVars, lraVars, sesVars, authVars>>

------------------------------------------------------------------------------
(* Specifications. *)

ParseNext ==
    ParsePredictionsCall /\ UNCHANGED <<encVars, pidVars, achVars, preVars, s3Objects, infVars, accVars,
        psVars, subVars, batchVars, getVars, lraVars, sesVars, authVars>>

InitParse ==
    /\ ParseInit
    /\ EncodeIdle
    /\ DetectIdle
    /\ HandlerIdle
    /\ PreprocessIdle
    /\ StoreIdle
    /\ InferIdle
    /\ AccumulateIdle
    /\ StatusIdle
    /\ SubscribeIdle
    /\ BatchIdle
    /\ GetIdle
    /\ ListIdle
    /\ SessionIdle
    /\ AuthIdle

SpecParse == InitParse /\ [][ParseNext]_vars

EncodeNext ==
    PreprocessDataCSVCall /\ UNCHANGED <<ppVars, pidVars, achVars, preVars, s3Objects, infVars, accVars,
        psVars, subVars, batchVars, getVars, lraVars, sesVars, authVars>>

InitEncode ==
    /\ EncodeInit
    /\ ParseIdle
    /\ DetectIdle
    /\ HandlerIdle
    /\ PreprocessIdle
    /\ StoreIdle
    /\ InferIdle
    /\ AccumulateIdle
    /\ StatusIdle
    /\ SubscribeIdle
    /\ BatchIdle
    /\ GetIdle
    /\ ListIdle
    /\ SessionIdle
    /\ AuthIdle

SpecEncode == InitEncode /\ [][EncodeNext]_vars

DetectNext ==
    ProcessInferAndDetectCall /\ UNCHANGED <<ppVars, encVars, achVars, preVars, infVars, accVars,
        psVars, subVars, batchVars, getVars, lraVars, sesVars, authVars>>

InitDetect ==
    /\ DetectInit
    /\ ParseIdle
    /\ EncodeIdle
    /\ HandlerIdle
    /\ PreprocessIdle
    /\ StoreIdle
    /\ InferIdle
    /\ AccumulateIdle
    /\ StatusIdle
    /\ SubscribeIdle
    /\ BatchIdle
    /\ GetIdle
    /\ ListIdle
    /\ SessionIdle
    /\ AuthIdle

SpecDetect == InitDetect /\ [][DetectNext]_vars

HandlerNext ==
    AnomalyCheckHandlerCall /\ UNCHANGED <<ppVars, encVars, pidVars, preVars, infVars, accVars,
        psVars, subVars, batchVars, getVars, lraVars, sesVars, authVars>>

InitHandler ==
    /\ HandlerInit
    /\ ParseIdle
    /\ EncodeIdle
    /\ DetectIdle
    /\ PreprocessIdle
    /\ StoreIdle
    /\ InferIdle
    /\ AccumulateIdle
    /\ StatusIdle
    /\ SubscribeIdle
    /\ BatchIdle
    /\ GetIdle
    /\ ListIdle
    /\ SessionIdle
    /\ AuthIdle

SpecHandler == InitHandler /\ [][HandlerNext]_vars

PreprocessNext ==
    PreprocessHandlerCall /\ UNCHANGED <<ppVars, encVars, pidVars, achVars, infVars, accVars,
        psVars, subVars, batchVars, getVars, lraVars, sesVars, authVars>>

InitPreprocess ==
    /\ PreprocessInit
    /\ ParseIdle
    /\ EncodeIdle
    /\ DetectIdle
    /\ HandlerIdle
    /\ InferIdle
    /\ AccumulateIdle
    /\ StatusIdle
    /\ SubscribeIdle
    /\ BatchIdle
    /\ GetIdle
    /\ ListIdle
    /\ SessionIdle
    /\ AuthIdle

SpecPreprocess == InitPreprocess /\ [][PreprocessNext]_vars

InferNext ==
    InferHandlerCall /\ UNCHANGED <<ppVars, encVars, pidVars, achVars, preVars, accVars,
        psVars, subVars, batchVars, getVars, lraVars, sesVars, authVars>>

InitInfer ==
    /\ InferInit
    /\ ParseIdle
    /\ EncodeIdle
    /\ DetectIdle
    /\ HandlerIdle
    /\ PreprocessIdle
    /\ AccumulateIdle
    /\ StatusIdle
    /\ SubscribeIdle
    /\ BatchIdle
    /\ GetIdle
    /\ ListIdle
    /\ SessionIdle
    /\ AuthIdle

SpecInfer == InitInfer /\ [][InferNext]_vars

AccumulateNext ==
    \E writer \in Writers : AccumulateLoad(writer) \/ AccumulateSave(writer)

InitAccumulate ==
    /\ AccumulateInit
    /\ ParseIdle
    /\ EncodeIdle
    /\ DetectIdle
    /\ HandlerIdle
    /\ PreprocessIdle
    /\ InferIdle
    /\ StatusIdle
    /\ SubscribeIdle
    /\ BatchIdle
    /\ GetIdle
    /\ ListIdle
    /\ SessionIdle
    /\ AuthIdle

SpecAccumulate == InitAccumulate /\ [][AccumulateNext]_vars

StatusNext ==
    PredictionStatusHandlerCall /\ UNCHANGED <<ppVars, encVars, pidVars, achVars, preVars, s3Objects,
        infVars, accVars, subVars, batchVars, getVars, lraVars, sesVars, authVars>>

InitStatus ==
    /\ StatusInit
    /\ ParseIdle
    /\ EncodeIdle
    /\ DetectIdle
    /\ HandlerIdle
    /\ PreprocessIdle
    /\ StoreIdle
    /\ InferIdle
    /\ AccumulateIdle
    /\ SubscribeIdle
    /\ BatchIdle
    /\ GetIdle
    /\ ListIdle
    /\ SessionIdle
    /\ AuthIdle

SpecStatus == InitStatus /\ [][StatusNext]_vars

SubscribeNext ==
    SubscribeAlertsHandlerCall /\ UNCHANGED <<ppVars, encVars, pidVars, achVars, preVars, s3Objects,
        infVars, accVars, psVars, batchVars, getVars, lraVars, sesVars, authVars>>

InitSubscribe ==
    /\ SubscribeInit
    /\ ParseIdle
    /\ EncodeIdle
    /\ DetectIdle
    /\ HandlerIdle
    /\ PreprocessIdle
    /\ StoreIdle
    /\ InferIdle
    /\ AccumulateIdle
    /\ StatusIdle
    /\ BatchIdle
    /\ GetIdle
    /\ ListIdle
    /\ SessionIdle
    /\ AuthIdle

SpecSubscribe == InitSubscribe /\ [][SubscribeNext]_vars

BatchNext ==
    PreprocessDataCSVBatchCall /\ UNCHANGED <<ppVars, encVars, pidVars, achVars, preVars, s3Objects,
        infVars, accVars, psVars, subVars, getVars, lraVars, sesVars, authVars>>

InitBatch ==
    /\ BatchInit
    /\ ParseIdle
    /\ EncodeIdle
    /\ DetectIdle
    /\ HandlerIdle
    /\ PreprocessIdle
    /\ StoreIdle
    /\ InferIdle
    /\ AccumulateIdle
    /\ SubscribeIdle
    /\ StatusIdle
    /\ GetIdle
    /\ ListIdle
    /\ SessionIdle
    /\ AuthIdle

SpecBatch == InitBatch /\ [][BatchNext]_vars

------------------------------------------------------------------------------
GetNext == GetStation \/ GetAnswer \/ GetReturn

InitGet ==
    /\ GetInit
    /\ ParseIdle
    /\ EncodeIdle
    /\ DetectIdle
    /\ HandlerIdle
    /\ PreprocessIdle
    /\ StoreIdle
    /\ InferIdle
    /\ AccumulateIdle
    /\ SubscribeIdle
    /\ StatusIdle
    /\ BatchIdle
    /\ ListIdle
    /\ SessionIdle
    /\ AuthIdle

SpecGet == InitGet /\ [][GetNext]_vars

\* the batch fetch runs on its own goroutine until it returns, and an answer
\* the provider gives is received
SpecGetFair == SpecGet /\ WF_vars(GetStation) /\ WF_vars(GetAnswer) /\ WF_vars(GetReturn)

------------------------------------------------------------------------------
ListNext == ListRecentAlertsScanCall \/ ListRecentAlertsQueryCall

InitList ==
    /\ ListInit
    /\ ParseIdle
    /\ EncodeIdle
    /\ DetectIdle
    /\ HandlerIdle
    /\ PreprocessIdle
    /\ StoreIdle
    /\ InferIdle
    /\ AccumulateIdle
    /\ SubscribeIdle
    /\ StatusIdle
    /\ BatchIdle
    /\ GetIdle
    /\ SessionIdle
    /\ AuthIdle

SpecList == InitList /\ [][ListNext]_vars

------------------------------------------------------------------------------
SessionNext == MintSessionTokenCall \/ ValidateSessionTokenCall \/ SessionTick

InitSession ==
    /\ SessionInit
    /\ ParseIdle
    /\ EncodeIdle
    /\ DetectIdle
    /\ HandlerIdle
    /\ PreprocessIdle
    /\ StoreIdle
    /\ InferIdle
    /\ AccumulateIdle
    /\ SubscribeIdle
    /\ StatusIdle
    /\ BatchIdle
    /\ GetIdle
    /\ ListIdle
    /\ AuthIdle

SpecSession == InitSession /\ [][SessionNext]_vars

------------------------------------------------------------------------------
AuthNext == ServeHTTP

InitAuth ==
    /\ AuthInit
    /\ ParseIdle
    /\ EncodeIdle
    /\ DetectIdle
    /\ HandlerIdle
    /\ PreprocessIdle
    /\ StoreIdle
    /\ InferIdle
    /\ AccumulateIdle
    /\ SubscribeIdle
    /\ StatusIdle
    /\ BatchIdle
    /\ GetIdle
    /\ ListIdle
    /\ SessionIdle

SpecAuth == InitAuth /\ [][AuthNext]_vars

------------------------------------------------------------------------------
(* Claims. *)

\* the text of the output between its surrounding blanks, one leading "["
\* and one trailing "]" removed
Unbracketed(out) ==
    LET t  == TrimSpace(out)
        t1 == IF t # <<>> /\ t[1] = "[" THEN SubSeq(t, 2, Len(t)) ELSE t
    IN  IF t1 # <<>> /\ t1[Len(t1)] = "]" THEN SubSeq(t1, 1, Len(t1) - 1) ELSE t1

Separators == {NL, CR, COMMA, TAB, SP}

\* the tokens of a text: its maximal runs between separators, as [from, to]
TokenSpans(t) ==
    {sp \in (1..(Len(t) + 1)) \X (0..Len(t)) :
        /\ sp[1] <= sp[2] + 1
        /\ \A i \in sp[1]..sp[2] : t[i] \notin Separators
        /\ (sp[1] = 1 \/ t[sp[1] - 1] \in Separators)
        /\ (sp[2] = Len(t) \/ t[sp[2] + 1] \in Separators)}

\* the spans of the tokens that parse as a number
NumericSpans(out) ==
    LET t == Unbracketed(out)
    IN  {sp \in TokenSpans(t) : ParseFloat(TrimSpace(SubSeq(t, sp[1], sp[2]))).ok}

LastNumericValue(out) ==
    LET t    == Unbracketed(out)
        last == CHOOSE sp \in NumericSpans(out) :
                    \A other \in NumericSpans(out) : other[1] <= sp[1]
    IN  ParseFloat(TrimSpace(SubSeq(t, last[1], last[2]))).v

\* C4: for every non-empty output with a numeric token, parsePredictions
\* returns the value of the last token that parses as a number, the tokens
\* being the runs between newline, carriage return, comma, tab and space of
\* the output without one leading "[" and one trailing "]"; "[66.5]",
\* "10\n20\n66.5" and "10,20,66.5" all give 66.5.
LastNumericTokenReturned ==
    ppResult.called =>
        /\ NumericSpans(ppOutput) # {} =>
               /\ ppResult.err = ""
               /\ ppResult.value = LastNumericValue(ppOutput)
        /\ ppOutput \in {OutBracket, OutLines, OutCommas} =>
               ppResult.value = Dec(66, 500)

\* C4 witness: an output with several numeric tokens has been parsed
LastNumericTokenWitness ==
    /\ ppResult.called
    /\ ppOutput = OutCommas
    /\ Cardinality(NumericSpans(ppOutput)) = 3
    /\ ppResult.value = Dec(66, 500)

\* C5: parsePredictions returns an error, with value 0, exactly when the
\* output is empty or blank or has no token that parses as a number.
ErrorIffNoNumericToken ==
    ppResult.called =>
        /\ ppResult.err # "" <=>
               (TrimSpace(ppOutput) = <<>> \/ NumericSpans(ppOutput) = {})
        /\ ppResult.err # "" => ppResult.value = 0

\* C5 witness: a non-blank output without a numeric token was rejected
NoNumericTokenWitness ==
    /\ ppResult.called
    /\ ppOutput = <<"a", COMMA, "[", "5">>
    /\ ppResult.err = "no numeric predictions parsed"
    /\ ppResult.value = 0

\* the points of a document, as <<series, block, point>> positions
PointIds(ts) ==
    {id \in (1..Len(ts)) \X (1..MaxItems + 2) \X (1..MaxItems + 2) :
        /\ id[2] <= Len(ts[id[1]].values)
        /\ id[3] <= Len(ts[id[1]].values[id[2]])}

PointAt(ts, id) == ts[id[1]].values[id[2]][id[3]]

\* document order: series, then value blocks, then points
Before(a, b) ==
    \/ a[1] < b[1]
    \/ a[1] = b[1] /\ a[2] < b[2]
    \/ a[1] = b[1] /\ a[2] = b[2] /\ a[3] < b[3]

\* the points whose timestamp parses
TimedIds(ts) == {id \in PointIds(ts) : ParseRFC3339(PointAt(ts, id).dateTime).ok}

\* the rows of CSV text: its newline-terminated lines
RowsOf(csv) ==
    IF csv = <<>> THEN <<>> ELSE Split(SubSeq(csv, 1, Len(csv) - 1), NL)

HasDigit(text) == \E i \in 1..Len(text) : text[i] \in DigitChars

\* C10: PreprocessDataCSV emits exactly one newline-terminated row of 5
\* fields (value, epoch seconds, latitude, longitude, temperature) per point
\* whose timestamp parses, in document order; a point whose timestamp does
\* not parse gives no row and no error; a point whose value holds no number
\* gives a row with label 0.
OneRowPerTimedPoint ==
    (encResult.called /\ encRaw.kind = "json") =>
        LET ts   == encRaw.timeSeries
            rows == RowsOf(encResult.csv)
        IN  /\ encResult.err = ""
            /\ encResult.csv # <<>> => encResult.csv[Len(encResult.csv)] = NL
            /\ Len(rows) = Cardinality(TimedIds(ts))
            /\ \A id \in TimedIds(ts) :
                   LET n  == Cardinality({o \in TimedIds(ts) : Before(o, id)}) + 1
                       f  == Split(rows[n], COMMA)
                       pt == PointAt(ts, id)
                       w  == encResult.wx[id[1]]
                   IN  /\ Len(f) = 5
                       /\ ParseFloat(f[1]).ok
                       /\ ParseFloat(pt.value).ok =>
                              ParseFloat(f[1]).v = ParseFloat(pt.value).v
                       /\ ~HasDigit(pt.value) => ParseFloat(f[1]).v = 0
                       /\ DigitsToNat(f[2]) = ParseRFC3339(pt.dateTime).unix
                       /\ ParseFloat(f[3]) = [ok |-> TRUE, v |-> ts[id[1]].lat]
                       /\ ParseFloat(f[4]) = [ok |-> TRUE, v |-> ts[id[1]].lng]
                       /\ ParseFloat(f[5]) =
                              [ok |-> TRUE, v |-> IF w.err THEN 0 ELSE w.temp * Unit]

\* C10 witness: a document with points in two value blocks, one without a
\* parsable timestamp and one without a parsable value, was encoded to 2 rows
OneRowPerTimedPointWitness ==
    /\ encResult.called
    /\ encRaw = DocOf(<<PtNoValue, PtNoZone, BlockBreak, PtGood>>)
    /\ encResult.err = ""
    /\ Len(RowsOf(encResult.csv)) = 2

\* percent_change(o, p) > t, from |p - o| / max(1e-9, |o|) * 100: with o = 0
\* the quotient is above any t >= 0 as soon as p differs from 0
ChangeAbove(o, p, t) ==
    IF o # 0 THEN Abs(p - o) * 100 > t * Abs(o) ELSE p # 0

\* C1: a result of ProcessInferAndDetect has anomalous = true exactly when
\* percent_change(observed, predicted) > 20 and predicted > 15, both strict;
\* observed 1, predicted 14 gives false; 5 and 20 give true; 72.3 and 66.2
\* give false.
AnomalousIffAboveThresholdAndFloor ==
    (pidOut.called /\ pidOut.res # Nil) =>
        LET o == pidOut.observed
            p == pidOut.predicted
        IN  /\ pidOut.res.Anomalous <=> (ChangeAbove(o, p, 20) /\ p > 15 * Unit)
            /\ p <= 15 * Unit => ~pidOut.res.Anomalous
            /\ (o = Dec(1, 0) /\ p = Dec(14, 0)) => ~pidOut.res.Anomalous
            /\ (o = Dec(5, 0) /\ p = Dec(20, 0)) => pidOut.res.Anomalous
            /\ (o = Dec(72, 300) /\ p = Dec(66, 200)) => ~pidOut.res.Anomalous

\* C1 witness: observed 1 and predicted 14, a change of 1300 percent under
\* the floor, were classified not anomalous
FloorWitness ==
    /\ pidOut.called
    /\ pidOut.res # Nil
    /\ pidOut.observed = Dec(1, 0)
    /\ pidOut.predicted = Dec(14, 0)
    /\ ~pidOut.res.Anomalous

\* r is v rounded to two decimals, halves away from zero
IsRounded2(r, v) ==
    LET step == Unit \div 100
    IN  /\ r % step = 0
        /\ 2 * Abs(r - v) <= step
        /\ 2 * Abs(r - v) = step => Abs(r) > Abs(v)

\* C2: in every result percent_change is |predicted - observed| /
\* max(1e-9, |observed|) * 100 of the unrounded values, the observed_value
\* and predicted_value fields are those values rounded to 2 decimals, and
\* the divisor is positive also for observed = 0.
PercentFromUnroundedValues ==
    (pidOut.called /\ pidOut.res # Nil) =>
        LET o  == pidOut.observed
            p  == pidOut.predicted
            pc == pidOut.res.PercentChange
        IN  /\ pc.num = Abs(p - o) * 100
            /\ pc.den > 0
            /\ o # 0 => (pc.den = Abs(o) /\ pc.shift = 0)
            /\ o = 0 => (pc.den = 1 /\ pc.shift = 9 - FracDigits)
            /\ IsRounded2(pidOut.res.ObservedValue, o)
            /\ IsRounded2(pidOut.res.PredictedValue, p)

\* C2 witness: observed 10.004 and predicted 14.996 are reported as 10.00
\* and 15.00 with the percent change of the unrounded values
UnroundedWitness ==
    /\ pidOut.called
    /\ pidOut.res # Nil
    /\ pidOut.observed = Dec(10, 4)
    /\ pidOut.predicted = Dec(14, 996)
    /\ pidOut.res.ObservedValue = Dec(10, 0)
    /\ pidOut.res.PredictedValue = Dec(15, 0)
    /\ pidOut.res.PercentChange.num = (Dec(14, 996) - Dec(10, 4)) * 100

\* C3 (as claimed): when the request has no threshold (threshold_percent
\* absent or <= 0), every returned item is classified with the default
\* threshold of 20 percent and the floor of 15 on the predicted value.
DefaultThresholdTwentyFloorFifteen ==
    (achOut.called /\ achOut.status = 200 /\ achIn.req.threshold <= 0) =>
        \A k \in 1..Len(achOut.items) :
            LET it == achOut.items[k]
            IN  it.Anomalous <=>
                    /\ ChangeAbove(it.ObservedValue, it.PredictedValue,
                                   defaultThresholdPercent)
                    /\ it.PredictedValue > minPredictedValue * Unit

------------------------------------------------------------------------------
(* Claims about the batch fetches and the fetch stage of the preprocess     *)
(* lambda.                                                                  *)

IsBlank(id) == TrimSpace(id) = <<>>

BlankIndexes(stationIDs) == {i \in 1..Len(stationIDs) : IsBlank(stationIDs[i])}

SiteIndexes(stationIDs) == {i \in 1..Len(stationIDs) : ~IsBlank(stationIDs[i])}

\* the batch fetches the handler ran, each with the provider's answers
BatchesRun ==
    {r \in {[batch |-> preOut.fetch.daily, answers |-> preOut.w.daily],
            [batch |-> preOut.fetch.iv, answers |-> preOut.w.iv]} :
        r.batch # NotTried}

\* results holds one entry per station id, at the station id's index: the
\* provider's payload, or nil for a blank id
Aligned(results, answers, stationIDs) ==
    /\ Len(results) = Len(stationIDs)
    /\ \A i \in 1..Len(stationIDs) :
           results[i] = IF IsBlank(stationIDs[i]) THEN NilPayload
                        ELSE answers[i].body

\* C6: for a list of station ids with a blank entry, a batch fetch that
\* succeeds returns a list as long as the input with nil at each blank
\* position, no request is made for a blank entry, and a batch fetch fails
\* only on the provider's answer for a non-blank entry.
BlankEntryYieldsNil ==
    (preOut.called /\ BlankIndexes(preIn.StationID) # {}) =>
        \A r \in BatchesRun :
            /\ \A k \in 1..Len(r.batch.requests) : ~IsBlank(r.batch.requests[k].site)
            /\ Len(r.batch.requests) <= Cardinality(SiteIndexes(preIn.StationID))
            /\ r.batch.err = "" =>
                   /\ Len(r.batch.results) = Len(preIn.StationID)
                   /\ \A i \in BlankIndexes(preIn.StationID) :
                          r.batch.results[i] = NilPayload
                   /\ Len(r.batch.requests) =
                          Cardinality(SiteIndexes(preIn.StationID))
            /\ r.batch.err # "" =>
                   \E i \in SiteIndexes(preIn.StationID) : r.answers[i].kind # "ok"

\* C6 witness: the daily batch over a blank id followed by a site succeeds
\* with nil first, the site's document second, and one request
BlankEntryWitness ==
    /\ preOut.called
    /\ preIn.StationID = <<BlankStation, Station03>>
    /\ preOut.fetch.daily.err = ""
    /\ preOut.fetch.daily.results = <<NilPayload, ProviderDoc("dv", Station03)>>
    /\ Len(preOut.fetch.daily.requests) = 1

\* C7 (as claimed): whichever tier supplies the documents, the fetch stage
\* hands on one document per requested station id, at the id's index.
OneDocumentPerSite ==
    (preOut.called /\ preOut.fetch.tier # "") =>
        /\ Len(preOut.fetch.rawPayloads) = Len(preIn.StationID)
        /\ preOut.fetch.tier = "daily" =>
               Aligned(preOut.fetch.rawPayloads, preOut.w.daily, preIn.StationID)
        /\ preOut.fetch.tier = "iv" =>
               Aligned(preOut.fetch.rawPayloads, preOut.w.iv, preIn.StationID)

\* C7 (amended): when the daily or the instantaneous tier supplies the
\* documents, the fetch stage hands on one entry per requested station id, at
\* the id's index (the provider's payload, nil for a blank id); when the
\* embedded document is used, it hands on that single document whatever the
\* number of station ids.
OneEntryPerSiteUnlessEmbedded ==
    (preOut.called /\ preOut.fetch.tier # "") =>
        /\ preOut.fetch.tier \in {"daily", "iv", "mock"}
        /\ preOut.fetch.tier = "daily" =>
               Aligned(preOut.fetch.rawPayloads, preOut.w.daily, preIn.StationID)
        /\ preOut.fetch.tier = "iv" =>
               Aligned(preOut.fetch.rawPayloads, preOut.w.iv, preIn.StationID)
        /\ preOut.fetch.tier = "mock" =>
               preOut.fetch.rawPayloads = <<MockDocument>>

\* C7 witness: the instantaneous tier hands on the documents of two sites in
\* the order of the request
OneEntryPerSiteWitness ==
    /\ preOut.called
    /\ preIn.StationID = <<Station05, Station03>>
    /\ preOut.fetch.tier = "iv"
    /\ preOut.fetch.rawPayloads =
           <<ProviderDoc("iv", Station05), ProviderDoc("iv", Station03)>>

\* C8: the tiers are tried in the order daily, instantaneous, embedded
\* document: instantaneous requests are made only after the daily batch
\* failed and after all daily requests, the embedded document is used only
\* after both batches failed, the first batch that succeeds supplies the
\* documents, and with valid input the handler always reaches the encoding.
TiersTriedInOrder ==
    (preOut.called /\ preOut.fetch.tier # "") =>
        LET f == preOut.fetch
        IN  /\ f.daily # NotTried
            /\ f.iv # NotTried <=> f.daily.err # ""
            /\ f.tier = "daily" <=> f.daily.err = ""
            /\ f.tier = "iv" <=> (f.daily.err # "" /\ f.iv.err = "")
            /\ f.tier = "mock" <=> (f.daily.err # "" /\ f.iv # NotTried /\ f.iv.err # "")
            /\ f.tier = "daily" => f.rawPayloads = f.daily.results
            /\ f.tier = "iv" => f.rawPayloads = f.iv.results
            /\ \A i, j \in 1..Len(f.requests) :
                   (f.requests[i].endpoint = "iv" /\ f.requests[j].endpoint = "dv")
                       => j < i
            /\ Len(preOut.trace) >= 2
            /\ preOut.trace[2] = "encode"
            /\ preOut.err \in {"", "preprocessing failed",
                               "failed to save processed data"}

\* C8 witness: the daily batch fails on its second site, the instantaneous
\* batch then supplies both documents, and the handler succeeds
TiersWitness ==
    /\ preOut.called
    /\ preIn.StationID = <<Station03, Station05>>
    /\ preOut.fetch.daily.err # ""
    /\ Len(preOut.fetch.daily.requests) = 2
    /\ preOut.fetch.tier = "iv"
    /\ Len(preOut.fetch.requests) = 4
    /\ preOut.err = ""

\* C9 (as claimed): in a batch fetch, a provider failure for one site does
\* not block or fail the other sites: every site is requested, and the
\* document of every site the provider answers is returned.
FailureDoesNotBlockOtherSites ==
    preOut.called =>
        \A r \in BatchesRun :
            \A i \in SiteIndexes(preIn.StationID) :
                /\ \E k \in 1..Len(r.batch.requests) :
                       r.batch.requests[k].site = TrimSpace(preIn.StationID[i])
                /\ r.answers[i].kind = "ok" =>
                       /\ Len(r.batch.results) = Len(preIn.StationID)
                       /\ r.batch.results[i] = r.answers[i].body

------------------------------------------------------------------------------
(* Claims about the payload sent to the inference endpoint. *)

\* the non-blank rows of CSV text, each as its sequence of fields
NonBlankRows(csv) ==
    LET lines == Split(csv, NL)
        F[i \in 0..Len(lines)] ==
            IF i = 0 THEN <<>>
            ELSE IF TrimSpace(lines[i]) = <<>> THEN F[i - 1]
            ELSE Append(F[i - 1], Split(lines[i], COMMA))
    IN  F[Len(lines)]

\* payload holds one newline-terminated row per non-blank row of csv, in
\* order, made of the fields of that row after its first
LabelStripped(csv, payload) ==
    LET rows == NonBlankRows(csv)
        out  == RowsOf(payload)
    IN  /\ Len(out) = Len(rows)
        /\ (payload # <<>> => payload[Len(payload)] = NL)
        /\ \A k \in 1..Len(rows) :
               /\ out[k] = Join(Tail(rows[k]), COMMA)
               /\ Len(rows[k]) = 5 => Len(Split(out[k], COMMA)) = 4

\* the dataset the infer lambda loaded
LoadedCsv == (CHOOSE x \in s3Objects : TRUE).data

\* the CSV that ProcessInferAndDetect encoded
EncodedCsv == PreprocessDataCSV(pidOut.w.fetch[1].body, pidOut.w.wx).csv

\* the payloads of ProcessInferAndDetect are the encoded rows without their
\* label: 4 fields each
PipelinePayloadLabelStripped ==
    (pidOut.called /\ pidOut.sent # <<>>) =>
        /\ Len(pidOut.sent) = 1
        /\ LabelStripped(EncodedCsv, pidOut.sent[1])
        /\ \A k \in 1..Len(NonBlankRows(EncodedCsv)) :
               Len(NonBlankRows(EncodedCsv)[k]) = 5

PipelinePayloadWitness ==
    /\ pidOut.called
    /\ Len(pidOut.sent) = 1
    /\ Len(NonBlankRows(EncodedCsv)) = 1
    /\ Len(RowsOf(pidOut.sent[1])) = 1
    /\ Len(Split(RowsOf(pidOut.sent[1])[1], COMMA)) = 4

Saves == {i \in 1..Len(accHistory) : accHistory[i].op = "save"}

\* E, then a newline unless E ends with one, then N
Concatenated(E, N) ==
    IF E[Len(E)] = NL THEN E \o N ELSE E \o <<NL>> \o N

\* C12: the content an accumulate operation saves is E, a single newline only
\* if E does not end with one, then N, when the load returned a non-empty E,
\* and exactly N when the load failed or returned empty content; a completed
\* save leaves that content at the key.
AccumulateConcatenates ==
    \A i \in Saves :
        LET e == accHistory[i]
        IN  /\ (e.existing.err = "" /\ e.existing.data # <<>>) =>
                   e.stored = Concatenated(e.existing.data, e.new)
            /\ (e.existing.err # "" \/ e.existing.data = <<>>) => e.stored = e.new
            /\ (i = Len(accHistory) /\ e.ok) => StoredAt(s3Objects) = e.stored

\* "x,y" was loaded, "a,b\n" is new: "x,y\na,b\n" is stored
AccumulateWitness ==
    \E i \in Saves :
        /\ i = Len(accHistory)
        /\ accHistory[i].ok
        /\ accHistory[i].existing = [err |-> "", data |-> <<"x", COMMA, "y">>]
        /\ accHistory[i].new = <<"a", COMMA, "b", NL>>
        /\ StoredAt(s3Objects) = <<"x", COMMA, "y", NL, "a", COMMA, "b", NL>>

IsPrefix(s, t) == Len(s) <= Len(t) /\ SubSeq(t, 1, Len(s)) = s

\* C13 (as claimed): whatever the outcome of each load, the content stored at
\* the key before a step of an accumulate operation is a prefix of the content
\* stored after it.
StoredContentOnlyGrows ==
    [][IsPrefix(StoredAt(s3Objects), StoredAt(s3Objects'))]_vars

StageOrder ==
    <<"fetch", "extract", "encode", "persist", "config", "invoke", "parse", "decide">>

\* the stages of a call whose configuration has, or has not, a bucket
StagesFor(cfg) ==
    IF cfg.bucket = "" THEN SelectSeq(StageOrder, LAMBDA s : s # "persist")
    ELSE StageOrder

Ran(stage) == \E i \in 1..Len(pidOut.trace) : pidOut.trace[i] = stage

\* the payload the fetch hands on: a blank site is not requested
FetchedPayload ==
    IF TrimSpace(pidIn.stationID) = <<>> THEN NilPayload ELSE pidOut.w.fetch[1].body

\* the stage at which the inputs of the call make it fail, "" when none does
FailingStage ==
    IF pidIn.stationID = <<>> THEN "none run"
    ELSE IF TrimSpace(pidIn.stationID) # <<>> /\ pidOut.w.fetch[1].kind # "ok"
    THEN "fetch"
    ELSE IF parseLatestObserved(FetchedPayload).err # "" THEN "extract"
    ELSE IF PreprocessDataCSV(FetchedPayload, pidOut.w.wx).err # "" THEN "encode"
    ELSE IF pidIn.cfg.endpoint = "" \/ pidIn.cfg.model = "" THEN "config"
    ELSE IF pidOut.w.invoke.err THEN "invoke"
    ELSE IF parsePredictions(pidOut.w.invoke.out).err # "" THEN "parse"
    ELSE ""

\* C14: the stages run in the order fetch, extract, encode, optional persist,
\* config, invoke, parse, decide; a hard failure returns an error without a
\* result and is the last stage run; the endpoint is invoked at most once, and
\* only after fetch, extraction and encode succeeded.
StagesInOrderUntilHardFailure ==
    pidOut.called =>
        /\ IsPrefix(pidOut.trace, StagesFor(pidIn.cfg))
        /\ FailingStage = "none run" => (pidOut.trace = <<>> /\ pidOut.err # "")
        /\ FailingStage \notin {"", "none run"} =>
               /\ pidOut.err # ""
               /\ pidOut.res = Nil
               /\ pidOut.trace # <<>>
               /\ pidOut.trace[Len(pidOut.trace)] = FailingStage
        /\ FailingStage = "" =>
               /\ pidOut.err = ""
               /\ pidOut.res # Nil
               /\ pidOut.trace = StagesFor(pidIn.cfg)
        /\ Len(pidOut.sent) <= 1
        /\ Len(pidOut.sent) = 1 <=> Ran("invoke")
        /\ Ran("invoke") => FailingStage \in {"invoke", "parse", ""}

\* the last hard failure: every stage up to parse ran, the endpoint was
\* invoked once, the prediction could not be parsed
StagesWitness ==
    /\ pidOut.called
    /\ pidOut.err # ""
    /\ pidOut.res = Nil
    /\ pidOut.trace = <<"fetch", "extract", "encode", "persist", "config", "invoke",
                        "parse">>
    /\ Len(pidOut.sent) = 1

\* the rows of a CSV text, one per line
CsvRows(csv) == IF csv = <<>> THEN <<>> ELSE Split(TrimSuffix(csv, NL), NL)

\* the number of points of a series whose timestamp is RFC 3339
TimedPoints(ts) ==
    LET F[j \in 0..Len(ts.values)] ==
            IF j = 0 THEN 0
            ELSE F[j - 1] + Cardinality({k \in 1..Len(ts.values[j]) :
                                ParseRFC3339(ts.values[j][k].dateTime).ok})
    IN  F[Len(ts.values)]

\* the rows that the points of series 1..i make
RowsUpTo(series, i) ==
    LET F[n \in 0..i] == IF n = 0 THEN 0 ELSE F[n - 1] + TimedPoints(series[n])
    IN  F[i]

\* the last field of a row
LastField(row) == LET fields == Split(row, COMMA) IN fields[Len(fields)]

\* every row of the i-th series has temperature 0
ZeroTemperature(series, rows, i) ==
    \A r \in (RowsUpTo(series, i - 1) + 1)..RowsUpTo(series, i) :
        LastField(rows[r]) = <<"0">>

\* C15: a call whose inputs make no stage fail hard returns a result and
\* invokes the endpoint once although the save fails or no bucket is
\* configured; whenever the encode stage runs it succeeds, and the rows of a
\* series whose weather lookup failed carry temperature 0.
SoftFailuresDoNotAbort ==
    pidOut.called =>
        /\ (FailingStage = "" /\ (pidIn.cfg.bucket = "" \/ ~pidOut.w.saveOk)) =>
               /\ pidOut.err = ""
               /\ pidOut.res # Nil
               /\ Len(pidOut.sent) = 1
               /\ pidOut.puts = <<>>
        /\ Ran("invoke") =>
               LET series == Unmarshal(FetchedPayload).timeSeries
                   rows   == CsvRows(pidOut.sent[1])
               IN  /\ Len(rows) = RowsUpTo(series, Len(series))
                   /\ \A i \in 1..Len(series) :
                          pidOut.w.wx[i].err => ZeroTemperature(series, rows, i)

\* the save failed and the weather lookup of the second of two series failed:
\* a result is returned, the row of the second series has temperature 0, the
\* row of the first has not
SoftFailuresWitness ==
    /\ pidOut.called
    /\ pidOut.res # Nil
    /\ pidIn.cfg.bucket # ""
    /\ ~pidOut.w.saveOk
    /\ Len(pidOut.sent) = 1
    /\ Len(pidOut.w.wx) = 2
    /\ ~pidOut.w.wx[1].err
    /\ pidOut.w.wx[2].err
    /\ Len(CsvRows(pidOut.sent[1])) = 2
    /\ LastField(CsvRows(pidOut.sent[1])[1]) = <<"7", "5">>
    /\ LastField(CsvRows(pidOut.sent[1])[2]) = <<"0">>

\* the points of a document whose timestamp parses, as <<series, block, point>>
TimedPointsOf(series) ==
    {p \in UNION {UNION {{<<i, j, k>> : k \in 1..Len(series[i].values[j])} :
                             j \in 1..Len(series[i].values)} :
                      i \in 1..Len(series)} :
        parseUSGSTime(series[p[1]].values[p[2]][p[3]].dateTime).ok}

\* the value of the point with the greatest timestamp, the first of them in
\* document order
LatestOfDocument(series) ==
    LET at(p)   == series[p[1]].values[p[2]][p[3]]
        time(p) == parseUSGSTime(at(p).dateTime).unix
        best    == CHOOSE p \in TimedPointsOf(series) :
                       \A q \in TimedPointsOf(series) \ {p} :
                           time(q) < time(p) \/ (time(q) = time(p) /\ Before(p, q))
    IN  ScanFloat(at(best).value)

\* C17 (as claimed): the observed value is the value of the point with the
\* greatest parsable timestamp among all points of the raw document, the first
\* in document order on equal timestamps; a document without such a point
\* makes the call fail.
ObservedIsLatestOfDocument ==
    (pidOut.called /\ Ran("extract") /\ Unmarshal(FetchedPayload).ok) =>
        IF TimedPointsOf(Unmarshal(FetchedPayload).timeSeries) = {}
        THEN pidOut.err # "" /\ pidOut.res = Nil
        ELSE /\ Ran("encode")
             /\ pidOut.observed = LatestOfDocument(Unmarshal(FetchedPayload).timeSeries)

\* the indexes of the non-blank sites of the request, in order
NonBlankSites ==
    SelectSeq([i \in 1..Len(achIn.req.sites) |-> i],
              LAMBDA i : ~IsBlank(achIn.req.sites[i]))

\* the positions in achOut.effects of the pipelines that returned a result
Succeeded ==
    SelectSeq([k \in 1..Len(achOut.effects) |-> k],
              LAMBDA k : achOut.effects[k].err = "")

ValidRequest ==
    /\ achIn.req.method = "POST"
    /\ achIn.req.bodyOk
    /\ Len(achIn.req.sites) \in 1..10

\* C16: a valid request is answered 200; the pipeline is run for every
\* non-blank site, in the order of the request, whatever the earlier sites
\* did; the items are those of the sites whose pipeline returned a result, in
\* that order, and a site whose pipeline failed has no item.
PartialSuccessReported ==
    (achOut.called /\ ValidRequest) =>
        /\ achOut.status = 200
        /\ achOut.processed = NonBlankSites
        /\ Len(achOut.effects) = Len(NonBlankSites)
        /\ \A k \in 1..Len(achOut.effects) :
               /\ achOut.effects[k].requests # <<>>
               /\ achOut.effects[k].requests[1].site =
                      TrimSpace(achIn.req.sites[NonBlankSites[k]])
               /\ achOut.effects[k].err = "" <=> achOut.effects[k].res # Nil
        /\ Len(achOut.items) = Len(Succeeded)
        /\ \A m \in 1..Len(Succeeded) :
               /\ achOut.items[m].Site =
                      TrimSpace(achIn.req.sites[NonBlankSites[Succeeded[m]]])
               /\ achOut.items[m].S3Key = achOut.effects[Succeeded[m]].res.S3Key
               /\ achOut.items[m].Anomalous =
                      achOut.effects[Succeeded[m]].res.Anomalous

\* the pipeline of the first of two sites failed, the second site was still
\* processed and is the only item
PartialSuccessWitness ==
    /\ achOut.called
    /\ achOut.status = 200
    /\ achIn.req.sites = <<Station03, Station05>>
    /\ achOut.processed = <<1, 2>>
    /\ achOut.effects[1].err # ""
    /\ achOut.effects[2].err = ""
    /\ Len(achOut.items) = 1
    /\ achOut.items[1].Site = Station05

------------------------------------------------------------------------------
(* Claims about the prediction status and the alert subscriptions. *)

\* the status the lookup is made with
StatusAsked == IF psIn.status = "" THEN "started" ELSE psIn.status

\* the items of the table for the site and status of the query
ItemsAsked ==
    {x \in predictionTracker : x.site = psIn.site /\ x.status = StatusAsked}

\* C18 (as claimed): in_progress is true exactly when an item for the site and
\* status exists and was created less than 5 minutes before the request;
\* without an item the answer is 200 with in_progress false and zero
\* timestamps; a missing site is answered 400 without a lookup.
InProgressWithinFiveMinutes ==
    psOut.called =>
        /\ psIn.site = "" => (psOut.code = 400 /\ psOut.lookups = <<>>)
        /\ (psIn.site # "" /\ ~psOut.getFails) =>
               /\ psOut.code = 200
               /\ psOut.body.in_progress <=>
                      \E x \in ItemsAsked : StatusNow - x.createdon < 5 * Minute
               /\ ItemsAsked = {} =>
                      /\ ~psOut.body.in_progress
                      /\ psOut.body.createdon_ms = 0
                      /\ psOut.body.updatedon_ms = 0

\* the email SubscribeAlertsEmail is called with
EmailGiven == TrimSpace(subIn.email)

LowerText(s) == [i \in 1..Len(s) |-> Fold(s[i])]

\* the topic has a confirmed email subscription for the email given
HasConfirmed ==
    \E k \in 1..Len(snsSubscriptions) :
        /\ snsSubscriptions[k].Protocol = <<"email">>
        /\ snsSubscriptions[k].SubscriptionArn \notin
               {NilText, <<>>, <<"PendingConfirmation">>}
        /\ snsSubscriptions[k].Endpoint # NilText
        /\ LowerText(snsSubscriptions[k].Endpoint) = LowerText(EmailGiven)

Issued(call) == \E i \in 1..Len(subOut.calls) : subOut.calls[i] = call

------------------------------------------------------------------------------
(* Claims about concurrent accumulate operations. *)

\* the number of places at which rows occurs in text
Occurrences(rows, text) ==
    Cardinality({i \in 1..(Len(text) - Len(rows) + 1) :
                    SubSeq(text, i, i + Len(rows) - 1) = rows})

\* the load of the operation that made the save at index s
LoadOf(s) ==
    CHOOSE l \in 1..(s - 1) :
        /\ accHistory[l].op = "load"
        /\ accHistory[l].writer = accHistory[s].writer
        /\ \A m \in (l + 1)..(s - 1) :
               ~(accHistory[m].op = "load"
                   /\ accHistory[m].writer = accHistory[s].writer)

\* the saves that stored their content
GoodSaves == {s \in Saves : accHistory[s].ok}

\* the save at sb follows the save at sa, both operations had loaded the
\* stored content before either save
Interleaved(sa, sb) ==
    /\ sa < sb
    /\ LoadOf(sa) < sa
    /\ LoadOf(sb) < sa
    /\ accHistory[LoadOf(sa)].ok
    /\ accHistory[LoadOf(sb)].ok

\* the operation of the save at sb ran after that of the save at sa, and
\* no other save came between them
OneAfterTheOther(sa, sb) ==
    /\ sa < LoadOf(sb)
    /\ accHistory[LoadOf(sa)].ok
    /\ accHistory[LoadOf(sb)].ok
    /\ \A m \in (sa + 1)..(sb - 1) : m \notin GoodSaves

\* the content a save leaves: the one it computed
ContentAfter(s) ==
    IF s = Len(accHistory) THEN StoredAt(s3Objects) ELSE accHistory[s].stored

\* C20: when two operations both load before either saves, the content after
\* the last save is the one that save wrote from what it had loaded, and the
\* rows of the other writer are not added to it; when one operation runs
\* after the other, the content after the second save holds the rows of both.
LastWriterWins ==
    \A sa \in GoodSaves, sb \in GoodSaves :
        /\ Interleaved(sa, sb) =>
               /\ ContentAfter(sb) =
                      (IF accHistory[LoadOf(sb)].stored = <<>>
                       THEN accHistory[sb].new
                       ELSE Concatenated(accHistory[LoadOf(sb)].stored,
                                         accHistory[sb].new))
               /\ accHistory[sa].new # <<>> =>
                      /\ ~IsPrefix(accHistory[sa].stored, ContentAfter(sb))
                      /\ Occurrences(accHistory[sa].new, ContentAfter(sb)) =
                             Occurrences(accHistory[sa].new,
                                         accHistory[LoadOf(sb)].stored)
        /\ OneAfterTheOther(sa, sb) =>
               /\ IsPrefix(accHistory[sa].stored, ContentAfter(sb))
               /\ \A s \in {sa, sb} :
                      accHistory[s].new # <<>> =>
                          Occurrences(accHistory[s].new, ContentAfter(sb)) >=
                              Occurrences(accHistory[s].new,
                                          accHistory[LoadOf(sa)].stored)
                                  + (IF accHistory[sa].new = accHistory[sb].new
                                     THEN 2 ELSE 1)

\* both writers loaded "x,y", the first saved "x,y\na,b\n", the second then
\* saved "x,y\nc,d\n": the rows "a,b" are lost
LastWriterWinsWitness ==
    /\ Len(accHistory) = 4
    /\ accHistory[1].op = "load" /\ accHistory[1].ok
    /\ accHistory[2].op = "load" /\ accHistory[2].ok
    /\ accHistory[3].op = "save" /\ accHistory[3].ok /\ accHistory[3].writer = 1
    /\ accHistory[3].stored = <<"x", COMMA, "y", NL, "a", COMMA, "b", NL>>
    /\ accHistory[4].op = "save" /\ accHistory[4].ok /\ accHistory[4].writer = 2
    /\ StoredAt(s3Objects) = <<"x", COMMA, "y", NL, "c", COMMA, "d", NL>>

------------------------------------------------------------------------------
(* Claims about the weather lookups of the encoder and the batch encoder. *)

\* the temperature the rows of the i-th series must carry
SeriesTemperature(wx, i) == FormatInt(IF wx[i].err THEN 0 ELSE wx[i].temp)

NonEmptyDocs ==
    SelectSeq([i \in 1..Len(batchIn) |-> i], LAMBDA i : batchIn[i].kind # "nil")

\* the rows PreprocessDataCSV produces for the payload at index i
BlockOfDoc(i) == PreprocessDataCSV(batchIn[i], batchOut.wxs[i]).csv

\* the blocks of the payloads at the first n of indexes, one after the other
BlocksJoined(indexes) ==
    LET F[n \in 0..Len(indexes)] ==
            IF n = 0 THEN <<>> ELSE F[n - 1] \o BlockOfDoc(indexes[n])
    IN  F[Len(indexes)]

RowsSummed(indexes) ==
    LET F[n \in 0..Len(indexes)] ==
            IF n = 0 THEN 0 ELSE F[n - 1] + Len(CsvRows(BlockOfDoc(indexes[n])))
    IN  F[Len(indexes)]

\* C22: when every non-empty payload decodes, the batch encoder returns the
\* blocks of the non-empty payloads in input order, each block directly after
\* the newline that ends the one before; no line of the result is blank, and
\* the rows number the sum of the rows of the documents.
BatchConcatenatesBlocks ==
    (batchOut.called /\ \A i \in 1..Len(batchIn) : batchIn[i].kind \in {"nil", "json"}) =>
        /\ batchOut.err = ""
        /\ batchOut.csv = BlocksJoined(NonEmptyDocs)
        /\ Len(CsvRows(batchOut.csv)) = RowsSummed(NonEmptyDocs)
        /\ \A r \in 1..Len(CsvRows(batchOut.csv)) : CsvRows(batchOut.csv)[r] # <<>>
        /\ batchOut.csv # <<>> => batchOut.csv[Len(batchOut.csv)] = NL

\* a nil payload between a document of two rows and one of one row: three
\* rows, none blank
BatchConcatenatesWitness ==
    /\ batchOut.called
    /\ batchOut.err = ""
    /\ Len(batchIn) = 3
    /\ Len(CsvRows(BlockOfDoc(1))) = 2
    /\ batchIn[2].kind = "nil"
    /\ Len(CsvRows(BlockOfDoc(3))) = 1
    /\ Len(CsvRows(batchOut.csv)) = 3
    /\ batchOut.csv = BlockOfDoc(1) \o BlockOfDoc(3)

------------------------------------------------------------------------------
(* Claims about the dataset blob of ProcessInferAndDetect. *)

\* C23 (as claimed): whenever ProcessInferAndDetect returns a result, the blob
\* store holds at the result's storage key the encoded rows whose features
\* were sent to the endpoint.
ResultKeyHoldsDataset ==
    (pidOut.called /\ pidOut.res # Nil) =>
        \E x \in s3Objects :
            /\ x.key = pidOut.res.S3Key
            /\ x.data = PreprocessDataCSV(FetchedPayload, pidOut.w.wx).csv
            /\ StripLabels(x.data) = pidOut.sent[1]

------------------------------------------------------------------------------
AnomalousItems == SelectSeq(achOut.items, LAMBDA it : it.Anomalous)

\* C24: a request publishes at most one alert: exactly one, covering every
\* anomalous item of the whole request, when some returned item is anomalous;
\* none when no item is anomalous or the request is rejected; whether or not
\* the publication succeeds, the status is 200 and the items are those of the
\* pipelines that returned a result.
AtMostOneAlert ==
    achOut.called =>
        /\ Len(achOut.alerts) <= 1
        /\ Len(achOut.alerts) = 1 <=> AnomalousItems # <<>>
        /\ achOut.status # 200 => achOut.alerts = <<>> /\ achOut.items = <<>>
        /\ achOut.alerts # <<>> =>
               /\ achOut.processed = NonBlankSites
               /\ achOut.alerts[1].count = Len(AnomalousItems)
               /\ achOut.alerts[1].sites =
                      [k \in 1..Len(AnomalousItems) |-> AnomalousItems[k].Site]
        /\ achOut.alerts # <<>> =>
               /\ achOut.status = 200
               /\ Len(achOut.items) = Len(Succeeded)
               /\ \A m \in 1..Len(Succeeded) :
                      achOut.items[m] =
                          ItemOf(TrimSpace(achIn.req.sites[NonBlankSites[Succeeded[m]]]),
                                 achOut.effects[Succeeded[m]].res)

\* two sites, one anomalous and one not, one alert for the one, whose
\* publication failed, and both items are returned with status 200
AtMostOneAlertWitness ==
    /\ achOut.called
    /\ achOut.status = 200
    /\ Len(achOut.items) = 2
    /\ achOut.items[1].Anomalous
    /\ ~achOut.items[2].Anomalous
    /\ Len(achOut.alerts) = 1
    /\ achOut.alerts[1].count = 1
    /\ ~achOut.alerts[1].delivered

------------------------------------------------------------------------------
(* Claims about the termination of the batch fetches. *)

\* C25 (as claimed): a batch fetch always eventually returns, even when the
\* provider never answers, every request being bounded by its own timeout.
BatchFetchReturns == <>(getRun.pc = "returned")

------------------------------------------------------------------------------
(* Claims about the asymmetry of the percent change. *)

\* the percent change with the roles of the two values of the call exchanged
Swapped == PercentOf(pidOut.predicted, pidOut.observed)

\* C26: exchanging observed and predicted leaves the numerator
\* |predicted - observed| of percent_change unchanged, while the denominator
\* is |observed|; so for two nonzero values of different magnitude the
\* exchanged percent change is another number (equal positive numerators over
\* different denominators): observed 10 and predicted 12 give 20, observed 12
\* and predicted 10 give 50/3, about 16.67.
PercentChangeAsymmetric ==
    (pidOut.called /\ pidOut.res # Nil) =>
        /\ Swapped.num = pidOut.res.PercentChange.num
        /\ pidOut.observed # 0 =>
               /\ pidOut.res.PercentChange.den = Abs(pidOut.observed)
               /\ pidOut.res.PercentChange.shift = 0
        /\ pidOut.predicted # 0 =>
               /\ Swapped.den = Abs(pidOut.predicted)
               /\ Swapped.shift = 0
        /\ (/\ pidOut.observed # 0
            /\ pidOut.predicted # 0
            /\ Abs(pidOut.observed) # Abs(pidOut.predicted)) =>
               /\ pidOut.res.PercentChange.num > 0
               /\ pidOut.res.PercentChange.den # Swapped.den
        /\ (pidOut.observed = Dec(10, 0) /\ pidOut.predicted = Dec(12, 0)) =>
               /\ pidOut.res.PercentChange.num = 20 * pidOut.res.PercentChange.den
               /\ 3 * Swapped.num = 50 * Swapped.den
        /\ (pidOut.observed = Dec(12, 0) /\ pidOut.predicted = Dec(10, 0)) =>
               /\ 3 * pidOut.res.PercentChange.num
                      = 50 * pidOut.res.PercentChange.den
               /\ Swapped.num = 20 * Swapped.den

\* observed 12 and predicted 10: the result carries 50/3 percent, and the
\* exchanged values would give 20
PercentChangeAsymmetricWitness ==
    /\ pidOut.called
    /\ pidOut.res # Nil
    /\ pidOut.observed = Dec(12, 0)
    /\ pidOut.predicted = Dec(10, 0)
    /\ 3 * pidOut.res.PercentChange.num = 50 * pidOut.res.PercentChange.den
    /\ Swapped.num = 20 * Swapped.den

------------------------------------------------------------------------------
(* Claims about ListRecentAlerts. *)

EffectiveLimit == IF lraIn.limit <= 0 THEN defaultLimit ELSE lraIn.limit

Descending(items) ==
    \A i \in 1..(Len(items) - 1) : items[i] > items[i + 1]

\* the number of items the first k requests returned
RECURSIVE Collected(_)
Collected(k) == IF k = 0 THEN 0 ELSE Collected(k - 1) + lraOut.scans[k].returned

\* at most limit items (100 for limit <= 0), each of the table and created
\* on or after sinceEpochMs
BoundedAndRecent ==
    /\ Len(lraOut.items) <= EffectiveLimit
    /\ lraOut.scans # <<>>
    /\ lraOut.scans[1].limit = EffectiveLimit
    /\ \A i \in 1..Len(lraOut.items) :
           /\ lraOut.items[i] >= lraIn.sinceEpochMs
           /\ \E j \in 1..Len(lraIn.table) : lraIn.table[j] = lraOut.items[i]

\* the requests go on from key to key while fewer than limit items are
\* collected and a key came back, and no further
StopsAtLimitOrLastPage ==
    /\ Collected(Len(lraOut.scans)) = Len(lraOut.items)
    /\ \A k \in 1..(Len(lraOut.scans) - 1) :
           /\ Collected(k) < EffectiveLimit
           /\ lraOut.scans[k].lastKey # 0
           /\ lraOut.scans[k + 1].start = lraOut.scans[k].lastKey
           /\ lraOut.scans[k + 1].limit = EffectiveLimit - Collected(k)
    /\ \/ Len(lraOut.items) >= EffectiveLimit
       \/ lraOut.scans[Len(lraOut.scans)].lastKey = 0

\* C27 (as claimed): ListRecentAlerts returns at most limit items (100 when
\* limit <= 0), all created on or after sinceEpochMs, in descending order of
\* creation time, in either variant; the paginated variant stops as soon as
\* limit items are collected or there is no further page.
RecentAlertsDescendingInEveryVariant ==
    (lraOut.called /\ lraOut.err = "") =>
        /\ BoundedAndRecent
        /\ Descending(lraOut.items)
        /\ lraIn.variant = "scan" => StopsAtLimitOrLastPage

\* C27 (amended): as claimed, except that the descending order is that of the
\* variant that queries the index; the variant that scans returns the items
\* in the order the scan walked the table.
RecentAlertsBoundedAndRecent ==
    lraOut.called =>
        /\ lraOut.err # "" => lraOut.items = <<>>
        /\ lraOut.err = "" =>
               /\ BoundedAndRecent
               /\ lraIn.variant = "query" =>
                      /\ Descending(lraOut.items)
                      /\ Len(lraOut.scans) = 1
               /\ lraIn.variant = "scan" =>
                      /\ StopsAtLimitOrLastPage
                      /\ \A i, j \in 1..Len(lraOut.items) :
                             i < j =>
                                 \E a, b \in 1..Len(lraIn.table) :
                                     /\ a < b
                                     /\ lraIn.table[a] = lraOut.items[i]
                                     /\ lraIn.table[b] = lraOut.items[j]

\* a scan for 2 of 3 recent alerts takes two requests, stops at the limit
\* with a further page left, and returns the alerts in scan order
RecentAlertsWitness ==
    /\ lraOut.called
    /\ lraOut.err = ""
    /\ lraIn.variant = "scan"
    /\ lraIn.limit = 2
    /\ lraIn.sinceEpochMs = 1
    /\ lraIn.table = <<1, 3, 2>>
    /\ Len(lraOut.scans) = 2
    /\ lraOut.scans[2].lastKey # 0
    /\ lraOut.items = <<1, 3>>

------------------------------------------------------------------------------
(* Claims about the session tokens. *)

NoBar(phone) == \A i \in 1..Len(phone) : phone[i] # BAR

\* C29: under a non-empty secret and for a phone without '|', the minted
\* token validates to that phone at every second up to and including its
\* expiry second and is rejected at every later second, and a token whose
\* phone, expiry or signature differs from the minted one is rejected; with
\* no secret both MintSessionToken and ValidateSessionToken return an error.
SessionTokenRoundTrip ==
    /\ sesEnv = <<>> =>
           /\ sesMinted.called => sesMinted.err # ""
           /\ sesOut.called => sesOut.err # ""
    /\ (sesEnv # <<>> /\ sesMinted.called) =>
           /\ sesMinted.err = ""
           /\ (NoBar(sesMinted.phone) /\ sesOut.called) =>
                  /\ (sesOut.token = sesMinted.token /\ sesOut.at <= sesMinted.exp) =>
                         /\ sesOut.err = ""
                         /\ sesOut.phone = sesMinted.phone
                  /\ (sesOut.token = sesMinted.token /\ sesOut.at > sesMinted.exp) =>
                         sesOut.err # ""
                  /\ sesOut.token # sesMinted.token => sesOut.err # ""

\* a token minted for +1 at second 0 with two seconds to live is presented
\* in its expiry second and validates to +1
SessionTokenWitness ==
    /\ sesEnv = SecretK
    /\ sesMinted.called
    /\ sesMinted.phone = PhoneA
    /\ sesMinted.exp = 2
    /\ sesOut.called
    /\ sesOut.token = sesMinted.token
    /\ sesOut.at = 2
    /\ sesOut.err = ""
    /\ sesOut.phone = PhoneA

------------------------------------------------------------------------------
(* Claims about the verification gate of the API. *)

OpenPath == authIn.req.path \in {"/healthz", "/sms/send", "/sms/verify"}

TokenValidates ==
    /\ authIn.req.token # NoToken
    /\ ValidateSessionToken(authIn.req.token, authIn.secret, authIn.now).err = ""

HeadersAccepted ==
    /\ authIn.req.reqID # ""
    /\ authIn.req.code # ""
    /\ authOut.verify = "ok"

\* C28: with verification enabled, a request that is not OPTIONS and not to
\* /healthz, /sms/send or /sms/verify reaches a route handler exactly when
\* its session token validates or its two verification headers are non-empty
\* and accepted by VerifyCheck, and is answered 401 without a handler
\* otherwise; an invalid token does not bar a request whose verification
\* headers are accepted; with verification disabled no request is refused.
GateAdmitsTokenOrVerification ==
    (authOut.called /\ authIn.req.method # "OPTIONS") =>
        /\ authOut.dispatched <=> authOut.status # 401
        /\ (UseVonage(authIn.flag) /\ ~OpenPath) =>
               /\ authOut.dispatched <=> (TokenValidates \/ HeadersAccepted)
               /\ ~authOut.dispatched => authOut.status = 401
               /\ authOut.verifyCalls = 1 =>
                      /\ ~TokenValidates
                      /\ authIn.req.reqID # ""
                      /\ authIn.req.code # ""
        /\ (authIn.req.token # NoToken /\ ~TokenValidates /\ HeadersAccepted) =>
               authOut.dispatched
        /\ ~UseVonage(authIn.flag) => authOut.dispatched /\ authOut.verifyCalls = 0

\* verification is enabled and a request for /anomaly/check carries an
\* expired session token together with verification headers that VerifyCheck
\* accepts: it is dispatched
GateWitness ==
    /\ authOut.called
    /\ UseVonage(authIn.flag)
    /\ authIn.secret = SecretK
    /\ authIn.req.method = "POST"
    /\ authIn.req.path = "/anomaly/check"
    /\ authIn.req.token = MintSessionToken(PhoneA, 0, SecretK, 0).token
    /\ ~TokenValidates
    /\ HeadersAccepted
    /\ authOut.verifyCalls = 1
    /\ authOut.dispatched

------------------------------------------------------------------------------
(* Claims about the blob a failed ProcessInferAndDetect leaves behind. *)

\* the object the call stores: the encoded dataset under
\* processed/<site>/<unix-second>.csv
DatasetBlob ==
    [bucket |-> pidIn.cfg.bucket,
     key |-> ProcessedKey(pidIn.stationID, pidOut.w.now),
     data |-> PreprocessDataCSV(FetchedPayload, pidOut.w.wx).csv]

\* C30: the dataset is written, when a bucket is configured, before the
\* endpoint and model configuration is checked and before the endpoint is
\* invoked: a call that fails for an empty site id, a failed fetch, a missing
\* observation or a failed encode leaves the store as it was; a call that
\* fails for missing configuration, a failed invoke or an unparsable
\* prediction has written the dataset blob whenever a bucket is configured
\* and the write succeeds, and nothing otherwise.
EarlyFailuresLeaveStoreUnchanged ==
    (pidOut.called /\ pidOut.err # "") =>
        /\ FailingStage \in {"none run", "fetch", "extract", "encode"} =>
               /\ pidOut.puts = <<>>
               /\ s3Objects = {}
               /\ ~Ran("persist")
        /\ FailingStage \in {"config", "invoke", "parse"} =>
               /\ pidIn.cfg.bucket # "" =>
                      \E i \in 1..(Len(pidOut.trace) - 1) :
                          /\ pidOut.trace[i] = "persist"
                          /\ pidOut.trace[i + 1] = "config"
               /\ s3Objects = IF pidIn.cfg.bucket # "" /\ pidOut.w.saveOk
                              THEN {DatasetBlob}
                              ELSE {}

\* the endpoint is not configured: the call fails, and the dataset it
\* encoded is in the store
LateFailureLeavesBlob ==
    /\ pidOut.called
    /\ pidOut.err # ""
    /\ pidIn.stationID = Station03
    /\ pidIn.cfg.bucket # ""
    /\ pidIn.cfg.endpoint = ""
    /\ FailingStage = "config"
    /\ ~Ran("invoke")
    /\ s3Objects = {DatasetBlob}
    /\ DatasetBlob.data # <<>>

====
